---- MODULE Spec2Model ----
(***************************************************************************)
(* Model of the HTML-to-text converter (src/src/htmlToText.ts) and of its  *)
(* consumer, the convert-html-to-text tool (src/src/mcp-server-outline.ts).*)
(*                                                                         *)
(* A string is a sequence of characters; a character is a string naming    *)
(* one UTF-16 code unit ("a", "\n", or "U+20AC" for a unit outside ASCII). *)
(* The converter is a pipeline of regular-expression rewrites, so the      *)
(* module first defines regular expressions as data and a backtracking     *)
(* matcher with the priorities of the JavaScript one (leftmost match,      *)
(* alternatives in order, greedy and lazy repetition, capture groups,      *)
(* lookahead, back-references), and then writes every rewrite of the       *)
(* source as the regular expression the source has.                        *)
(***************************************************************************)
EXTENDS Integers, Sequences, FiniteSets, TLC

(***************************************************************************)
(* Characters                                                              *)
(***************************************************************************)
\* the lower-case letter of every upper-case letter
LowerMap ==
  LET UpperAlpha ==
        <<"A","B","C","D","E","F","G","H","I","J","K","L","M",
          "N","O","P","Q","R","S","T","U","V","W","X","Y","Z">>
      LowerAlpha ==
        <<"a","b","c","d","e","f","g","h","i","j","k","l","m",
          "n","o","p","q","r","s","t","u","v","w","x","y","z">>
  IN  [c \in {UpperAlpha[k] : k \in 1..26} |->
         LowerAlpha[CHOOSE k \in 1..26 : UpperAlpha[k] = c]]

\* canonical form of a character under the i flag
Lower(c) == IF c \in DOMAIN LowerMap THEN LowerMap[c] ELSE c

Digits == {"0","1","2","3","4","5","6","7","8","9"}

HexDigits == Digits \cup {"a","b","c","d","e","f"}

\* \s of a JavaScript regular expression, and the characters trim() removes
WhiteSpace ==
  {" ", "\t", "\n", "\r", "\f", "U+000B", "U+00A0", "U+FEFF", "U+2028", "U+2029"}

\* the characters that . does not match
LineTerminators == {"\n", "\r", "U+2028", "U+2029"}

(***************************************************************************)
(* Regular expressions as data                                             *)
(***************************************************************************)
Lit(s) == [t |-> "lit", s |-> s]

Set(cs) == [t |-> "set", neg |-> FALSE, cs |-> cs]

NotSet(cs) == [t |-> "set", neg |-> TRUE, cs |-> cs]

Dot == NotSet(LineTerminators)

\* [\s\S]
AnyChar == NotSet({})

Cat(rs) == [t |-> "cat", rs |-> rs]

Alt(rs) == [t |-> "alt", rs |-> rs]

\* r{min,max}; max = -1 is no upper limit
Rep(r, min, max, lazy) ==
  [t |-> "rep", r |-> r, min |-> min, max |-> max, lazy |-> lazy]

Star(r) == Rep(r, 0, -1, FALSE)

LazyStar(r) == Rep(r, 0, -1, TRUE)

Plus(r) == Rep(r, 1, -1, FALSE)

Opt(r) == Rep(r, 0, 1, FALSE)

\* capture group number n
Grp(n, r) == [t |-> "grp", n |-> n, r |-> r]

\* (?=r) and (?!r)
Look(r) == [t |-> "look", neg |-> FALSE, r |-> r]

NotLook(r) == [t |-> "look", neg |-> TRUE, r |-> r]

\* ^ without the m flag
Bol == [t |-> "bol"]

\* $ without the m flag
Eol == [t |-> "eol"]

\* $ with the m flag
EolM == [t |-> "eolm"]

\* back-reference \n
Ref(n) == [t |-> "ref", n |-> n]

\* a regular expression literal: ng capture groups, flags i and g
RegExp(re, ng, ci, g) == [re |-> re, ng |-> ng, ci |-> ci, g |-> g]

\* a capture: a group that did not take part in the match is undefined
Undef == [def |-> FALSE, v |-> <<>>]

Def(v) == [def |-> TRUE, v |-> v]

SameChar(a, b, ci) == IF ci THEN Lower(a) = Lower(b) ELSE a = b

CharIn(c, r, ci) ==
  LET hit == IF ci THEN \E d \in r.cs : Lower(d) = Lower(c) ELSE c \in r.cs
  IN  hit # r.neg

LitAt(lit, s, i, ci) ==
  /\ i + Len(lit) - 1 <= Len(s)
  /\ \A k \in 1..Len(lit) : SameChar(s[i + k - 1], lit[k], ci)

\* the concatenation ss[lo] \o ... \o ss[hi]
RECURSIVE ConcatAll(_, _, _)
ConcatAll(ss, lo, hi) ==
  IF lo > hi THEN <<>>
  ELSE IF lo = hi THEN ss[lo]
  ELSE LET mid == (lo + hi) \div 2
       IN  ConcatAll(ss, lo, mid) \o ConcatAll(ss, mid + 1, hi)

\* a point the matcher has reached: the position of the next character and
\* the captures so far
Cand(pos, caps) == [pos |-> pos, caps |-> caps]

\* a repetition whose body takes exactly one character: a character class,
\* possibly behind a lookahead as in (?:(?!---).)
OneChar(r) ==
  \/ r.t = "set"
  \/ r.t = "cat" /\ Len(r.rs) = 2 /\ r.rs[1].t = "look" /\ r.rs[2].t = "set"

(***************************************************************************)
(* RunNode(r, s, cands, ci): the points the matcher can reach by matching  *)
(* r from each of the points cands, in the order in which the backtracking *)
(* matcher of JavaScript tries them: alternatives left to right, a greedy  *)
(* repetition longest first, a lazy one shortest first.  The first element *)
(* of the result for a whole expression is the match that exec() returns.  *)
(***************************************************************************)
RECURSIVE RunNode(_, _, _, _)
RECURSIVE RunCat(_, _, _, _, _)
RECURSIVE RepFrom(_, _, _, _, _)

\* does the one-character body r accept the character at position j
CharOK(r, s, j, caps, ci) ==
  IF r.t = "set" THEN CharIn(s[j], r, ci)
  ELSE /\ (Len(RunNode(r.rs[1].r, s, <<Cand(j, caps)>>, ci)) > 0) # r.rs[1].neg
       /\ CharIn(s[j], r.rs[2], ci)

\* how many characters from position i on the repetition r of a
\* one-character body can take: the run of accepted characters, cut at r.max
RunLength(r, s, i, caps, ci) ==
  LET last == IF r.max # -1 /\ i + r.max - 1 < Len(s) THEN i + r.max - 1 ELSE Len(s)
      stops == {j \in i..last : ~CharOK(r.r, s, j, caps, ci)}
  IN  IF stops = {} THEN last - i + 1
      ELSE (CHOOSE j \in stops : \A h \in stops : j <= h) - i

\* the points after the repetition r of a one-character body from c
RepChars(r, s, c, ci) ==
  LET run == RunLength(r, s, c.pos, c.caps, ci)
      n == run - r.min + 1
  IN  IF n <= 0 THEN <<>>
      ELSE [k \in 1..n |->
              Cand(c.pos + (IF r.lazy THEN r.min + k - 1 ELSE run - k + 1), c.caps)]

\* the points after r from the single point c
RunOne(r, s, c, ci) ==
  CASE r.t = "lit" ->
         IF LitAt(r.s, s, c.pos, ci) THEN <<Cand(c.pos + Len(r.s), c.caps)>> ELSE <<>>
    [] r.t = "set" ->
         IF c.pos <= Len(s) /\ CharIn(s[c.pos], r, ci)
         THEN <<Cand(c.pos + 1, c.caps)>>
         ELSE <<>>
    [] r.t = "cat" -> RunCat(r.rs, 1, s, <<c>>, ci)
    [] r.t = "alt" ->
         ConcatAll([a \in 1..Len(r.rs) |-> RunNode(r.rs[a], s, <<c>>, ci)],
                   1, Len(r.rs))
    [] r.t = "rep" ->
         IF OneChar(r.r) THEN RepChars(r, s, c, ci) ELSE RepFrom(r, s, c, 0, ci)
    [] r.t = "grp" ->
         LET outs == RunNode(r.r, s, <<c>>, ci)
         IN  [j \in 1..Len(outs) |->
                Cand(outs[j].pos,
                     [outs[j].caps EXCEPT
                        ![r.n] = Def(SubSeq(s, c.pos, outs[j].pos - 1))])]
    [] r.t = "look" ->
         IF (Len(RunNode(r.r, s, <<c>>, ci)) > 0) # r.neg THEN <<c>> ELSE <<>>
    [] r.t = "bol" -> IF c.pos = 1 THEN <<c>> ELSE <<>>
    [] r.t = "eol" -> IF c.pos = Len(s) + 1 THEN <<c>> ELSE <<>>
    [] r.t = "eolm" ->
         IF c.pos = Len(s) + 1 \/ s[c.pos] = "\n" THEN <<c>> ELSE <<>>
    [] r.t = "ref" ->
         IF LitAt(c.caps[r.n].v, s, c.pos, ci)
         THEN <<Cand(c.pos + Len(c.caps[r.n].v), c.caps)>>
         ELSE <<>>

RunNode(r, s, cands, ci) ==
  IF Len(cands) = 0 THEN <<>>
  ELSE IF Len(cands) = 1 THEN RunOne(r, s, cands[1], ci)
  ELSE ConcatAll([k \in 1..Len(cands) |-> RunOne(r, s, cands[k], ci)], 1, Len(cands))

\* the expressions rs[k], rs[k+1], ... one after the other
RunCat(rs, k, s, cands, ci) ==
  IF k > Len(rs) \/ Len(cands) = 0 THEN cands
  ELSE RunCat(rs, k + 1, s, RunNode(rs[k], s, cands, ci), ci)

\* the repetition r from c, which ends n iterations of it; an iteration that
\* takes no character is not tried
RepFrom(r, s, c, n, ci) ==
  LET here == IF n >= r.min THEN <<c>> ELSE <<>>
      stepped == IF r.max # -1 /\ n >= r.max THEN <<>>
                 ELSE SelectSeq(RunNode(r.r, s, <<c>>, ci), LAMBDA b : b.pos > c.pos)
      deeper == ConcatAll([j \in 1..Len(stepped) |->
                             RepFrom(r, s, stepped[j], n + 1, ci)],
                          1, Len(stepped))
  IN  IF r.lazy THEN here \o deeper ELSE deeper \o here

\* a match: .start is its offset + 1, .end the position after it, .str the
\* matched text, .caps the captures p1..pn
NoExec == [ok |-> FALSE, start |-> 0, end |-> 0, str |-> <<>>, caps |-> <<>>]

\* the match from position from, given the points outs the matcher reaches
MatchOf(s, from, outs) ==
  IF Len(outs) = 0 THEN NoExec
  ELSE [ok |-> TRUE, start |-> from, end |-> outs[1].pos,
        str |-> SubSeq(s, from, outs[1].pos - 1), caps |-> outs[1].caps]

\* the match that starts at position from, if there is one
ExecAt(rx, s, from) ==
  MatchOf(s, from,
          RunNode(rx.re, s, <<Cand(from, [k \in 1..rx.ng |-> Undef])>>, rx.ci))

\* the match with the leftmost start in lo..hi
RECURSIVE ExecRange(_, _, _, _)
ExecRange(rx, s, lo, hi) ==
  IF lo > hi THEN NoExec
  ELSE IF lo = hi THEN ExecAt(rx, s, lo)
  ELSE LET mid == (lo + hi) \div 2
           left == ExecRange(rx, s, lo, mid)
       IN  IF left.ok THEN left ELSE ExecRange(rx, s, mid + 1, hi)

\* RegExp.prototype.exec with lastIndex = from - 1: the leftmost match
Exec(rx, s, from) == ExecRange(rx, s, from, Len(s) + 1)

Test(rx, s) == Exec(rx, s, 1).ok

\* the successive matches of a g regular expression (the one match, or none,
\* of a regular expression without the g flag)
RECURSIVE MatchAll(_, _, _)
RECURSIVE MatchAllAfter(_, _, _)
MatchAll(rx, s, from) == MatchAllAfter(rx, s, Exec(rx, s, from))

\* the match m and the matches after it
MatchAllAfter(rx, s, m) ==
  IF ~m.ok THEN <<>>
  ELSE IF ~rx.g THEN <<m>>
  ELSE <<m>> \o MatchAll(rx, s, IF m.end = m.start THEN m.end + 1 ELSE m.end)

\* s with the matches ms replaced by reps
Splice(s, ms, reps) ==
  LET n == Len(ms)
      piece(k) == IF k = 2 * n + 1 THEN SubSeq(s, ms[n].end, Len(s))
                  ELSE IF k % 2 = 0 THEN reps[k \div 2]
                  ELSE SubSeq(s, IF k = 1 THEN 1 ELSE ms[(k - 1) \div 2].end,
                              ms[(k + 1) \div 2].start - 1)
  IN  ConcatAll([k \in 1..(2 * n + 1) |-> piece(k)], 1, 2 * n + 1)

(***************************************************************************)
(* String operations of the JavaScript runtime that the source uses        *)
(***************************************************************************)
StartsWith(s, p) == LitAt(p, s, 1, FALSE)

Includes(s, p) == \E i \in 1..(Len(s) + 1) : LitAt(p, s, i, FALSE)

\* String.prototype.indexOf as a position (offset + 1), 0 when absent
IndexOf(s, p) ==
  IF Includes(s, p)
  THEN CHOOSE i \in 1..(Len(s) + 1) :
         LitAt(p, s, i, FALSE) /\ \A j \in 1..(i - 1) : ~LitAt(p, s, j, FALSE)
  ELSE 0

TrimStart(s) ==
  LET keep == {i \in 1..Len(s) : s[i] \notin WhiteSpace}
  IN  IF keep = {} THEN <<>>
      ELSE SubSeq(s, CHOOSE i \in keep : \A j \in keep : i <= j, Len(s))

TrimRight(s) ==
  LET keep == {i \in 1..Len(s) : s[i] \notin WhiteSpace}
  IN  IF keep = {} THEN <<>>
      ELSE SubSeq(s, 1, CHOOSE i \in keep : \A j \in keep : i >= j)

Trim(s) == TrimStart(TrimRight(s))

\* String.prototype.split(sep): the pieces between the occurrences of sep
RECURSIVE Split(_, _)
Split(s, sep) ==
  LET i == IndexOf(s, sep)
  IN  IF i = 0 THEN <<s>>
      ELSE <<SubSeq(s, 1, i - 1)>> \o Split(SubSeq(s, i + Len(sep), Len(s)), sep)

\* the pieces of s between the matches ms
Between(s, ms) ==
  [k \in 1..(Len(ms) + 1) |->
     SubSeq(s, IF k = 1 THEN 1 ELSE ms[k - 1].end,
            IF k = Len(ms) + 1 THEN Len(s) ELSE ms[k].start - 1)]

\* String.prototype.split(regular expression)
SplitRe(rx, s) == Between(s, MatchAll(rx, s, 1))

\* Array.prototype.join(sep)
Join(parts, sep) ==
  LET n == Len(parts)
  IN  ConcatAll([k \in 1..(2 * n - 1) |->
                   IF k % 2 = 1 THEN parts[(k + 1) \div 2] ELSE sep],
                1, 2 * n - 1)

DigitChars == <<"0","1","2","3","4","5","6","7","8","9">>

\* the decimal digits of a natural number (template-literal conversion)
RECURSIVE NumToString(_)
NumToString(n) ==
  IF n < 10 THEN <<DigitChars[n + 1]>>
  ELSE NumToString(n \div 10) \o <<DigitChars[(n % 10) + 1]>>

\* the outcome of a call: the string it returns, or the error it throws
\* with the text that `${error}` gives
Returned(s) == [threw |-> FALSE, text |-> s]

Thrown(error) == [threw |-> TRUE, text |-> error]

\* calling trim() on a number
TrimTypeError == Thrown(<<"T", "y", "p", "e", "E", "r", "r", "o", "r", ":", " ", "p", "1", ".", "t", "r", "i", "m", " ", "i", "s", " ", "n", "o", "t", " ", "a", " ", "f", "u", "n", "c", "t", "i", "o", "n">>)

\* the n-th argument after match that replace() hands to its callback:
\* the captures p1..pn, then the offset of the match, then the whole string
CallbackArg(rx, s, m, n) ==
  IF n <= rx.ng
  THEN IF m.caps[n].def
       THEN [ty |-> "string", s |-> m.caps[n].v, n |-> 0]
       ELSE [ty |-> "undefined", s |-> <<>>, n |-> 0]
  ELSE IF n = rx.ng + 1
  THEN [ty |-> "number", s |-> <<>>, n |-> m.start - 1]
  ELSE [ty |-> "string", s |-> s, n |-> 0]

\* truthiness of such an argument
Truthy(a) ==
  CASE a.ty = "string" -> Len(a.s) > 0
    [] a.ty = "number" -> a.n # 0
    [] OTHER -> FALSE

\* a capture inside a replacement string ($1): undefined gives the empty string
Cap(m, n) == m.caps[n].v

(***************************************************************************)
(* Character codes: String.fromCharCode, parseInt, Number                  *)
(***************************************************************************)
\* the characters with the codes 32..126 (the grave accent by its name)
Ascii ==
  << " ", "!", "\"", "#", "$", "%", "&", "'", "(", ")", "*", "+", ",",
    "-", ".", "/", "0", "1", "2", "3", "4", "5", "6", "7", "8", "9", ":",
    ";", "<", "=", ">", "?", "@", "A", "B", "C", "D", "E", "F", "G", "H",
    "I", "J", "K", "L", "M", "N", "O", "P", "Q", "R", "S", "T", "U", "V",
    "W", "X", "Y", "Z", "[", "\\", "]", "^", "_", "U+0060", "a", "b", "c", "d",
    "e", "f", "g", "h", "i", "j", "k", "l", "m", "n", "o", "p", "q", "r",
    "s", "t", "u", "v", "w", "x", "y", "z", "{", "|", "}", "~" >>

HexChars ==
  <<"0","1","2","3","4","5","6","7","8","9","A","B","C","D","E","F">>

\* the value of a digit in base 16 (either case)
DigitValue(c) == (CHOOSE k \in 1..16 : Lower(HexChars[k]) = Lower(c)) - 1

\* the name of the code unit n outside ASCII: U+ and four hex digits
UnitName(n) ==
  "U+" \o HexChars[((n \div 4096) % 16) + 1] \o HexChars[((n \div 256) % 16) + 1]
       \o HexChars[((n \div 16) % 16) + 1] \o HexChars[(n % 16) + 1]

\* String.fromCharCode(n): the code unit n modulo 2^16, as a one-character
\* string
FromCharCode(n) ==
  LET c == n % 65536
  IN  IF c \in 32..126 THEN <<Ascii[c - 31]>>
      ELSE IF c = 9 THEN <<"\t">>
      ELSE IF c = 10 THEN <<"\n">>
      ELSE IF c = 12 THEN <<"\f">>
      ELSE IF c = 13 THEN <<"\r">>
      ELSE <<UnitName(c)>>

\* parseInt(digits, base) and Number(digits) on a string of digits
RECURSIVE ParseInt(_, _)
ParseInt(digits, base) ==
  IF Len(digits) = 0 THEN 0
  ELSE ParseInt(SubSeq(digits, 1, Len(digits) - 1), base) * base
       + DigitValue(digits[Len(digits)])

(***************************************************************************)
(* Rewrites.  The converter is a sequence of statements                    *)
(*     text = text.replace(regular expression, replacement)                *)
(* and a few other steps.  A step is a record: its regular expression rx,  *)
(* the kind of its replacement (by), and what the replacement needs: a     *)
(* text or the pieces of a template (new) and a number (n).                *)
(***************************************************************************)
NoRegExp == RegExp(Lit(<<>>), 0, FALSE, FALSE)

Rule(rx, by, new, n) == [rx |-> rx, by |-> by, new |-> new, n |-> n]

\* .replace(rx, 'text without $')
To(rx, new) == Rule(rx, "string", new, 0)

\* the pieces of a replacement string: text, and $n
Text(s) == [cap |-> 0, s |-> s]

Dollar(n) == [cap |-> n, s |-> <<>>]

\* .replace(rx, 'text with $n')
ToTemplate(rx, pieces) == Rule(rx, "template", pieces, 0)

\* a replacement string with its $n filled in from the match m
Expand(pieces, m) ==
  ConcatAll([i \in 1..Len(pieces) |->
               IF pieces[i].cap = 0 THEN pieces[i].s ELSE Cap(m, pieces[i].cap)],
            1, Len(pieces))

\* Apply(rules, k, t): the outcome of the steps rules[k], rules[k+1], ...
\* on the outcome t of the steps before them; a step that throws ends them
RECURSIVE Apply(_, _, _)

\* [^>]*
NotGtStar == Star(NotSet({">"}))

\* <name[^>]*>
OpenTag(name) == Cat(<<Lit(<<"<">> \o name), NotGtStar, Lit(<<">">>)>>)

\* <name\s[^>]*>
OpenTagAttrs(name) ==
  Cat(<<Lit(<<"<">> \o name), Set(WhiteSpace), NotGtStar, Lit(<<">">>)>>)

\* <\/name>
CloseTag(name) == Lit(<<"<", "/">> \o name \o <<">">>)

\* /<[^>]*>/g
AnyTag == RegExp(Cat(<<Lit(<<"<">>), NotGtStar, Lit(<<">">>)>>), 0, FALSE, TRUE)

\* a regular expression with the flags gi and no capture group
Gi(re) == RegExp(re, 0, TRUE, TRUE)

\* a regular expression with the flag g and no capture group
G(re) == RegExp(re, 0, FALSE, TRUE)

(***************************************************************************)
(* markQuotedEmails                                                        *)
(***************************************************************************)
StartOrNewline == Alt(<<Bol, Lit(<<"\n">>)>>)

SentOrDate == Alt(<<Lit(<<"S", "e", "n", "t">>), Lit(<<"D", "a", "t", "e">>)>>)

patterns ==
  << \* /(?:^|\n)(From:.*?)\n((?:Sent|Date):.*?)\n(To:.*?)(?:\n(Cc:.*?))?\n(Subject:.*?)\n/gi
     RegExp(Cat(<<StartOrNewline,
                  Grp(1, Cat(<<Lit(<<"F", "r", "o", "m", ":">>), LazyStar(Dot)>>)), Lit(<<"\n">>),
                  Grp(2, Cat(<<SentOrDate, Lit(<<":">>), LazyStar(Dot)>>)), Lit(<<"\n">>),
                  Grp(3, Cat(<<Lit(<<"T", "o", ":">>), LazyStar(Dot)>>)),
                  Opt(Cat(<<Lit(<<"\n">>), Grp(4, Cat(<<Lit(<<"C", "c", ":">>), LazyStar(Dot)>>))>>)),
                  Lit(<<"\n">>),
                  Grp(5, Cat(<<Lit(<<"S", "u", "b", "j", "e", "c", "t", ":">>), LazyStar(Dot)>>)), Lit(<<"\n">>)>>),
            5, TRUE, TRUE),
     \* /(?:^|\n)(From:.*?@.*?)\n((?:Sent|Date):.*?)\n(To:.*?@.*?)(?:\n(Cc:.*?@.*?))?\n(Subject:.*?)\n/gi
     RegExp(Cat(<<StartOrNewline,
                  Grp(1, Cat(<<Lit(<<"F", "r", "o", "m", ":">>), LazyStar(Dot), Lit(<<"@">>), LazyStar(Dot)>>)),
                  Lit(<<"\n">>),
                  Grp(2, Cat(<<SentOrDate, Lit(<<":">>), LazyStar(Dot)>>)), Lit(<<"\n">>),
                  Grp(3, Cat(<<Lit(<<"T", "o", ":">>), LazyStar(Dot), Lit(<<"@">>), LazyStar(Dot)>>)),
                  Opt(Cat(<<Lit(<<"\n">>),
                            Grp(4, Cat(<<Lit(<<"C", "c", ":">>), LazyStar(Dot), Lit(<<"@">>),
                                         LazyStar(Dot)>>))>>)),
                  Lit(<<"\n">>),
                  Grp(5, Cat(<<Lit(<<"S", "u", "b", "j", "e", "c", "t", ":">>), LazyStar(Dot)>>)), Lit(<<"\n">>)>>),
            5, TRUE, TRUE),
     \* /(?:^|\n)_{5,}\n.*?Original Message.*?\n.*?From:.*?\n/gi
     RegExp(Cat(<<StartOrNewline, Rep(Lit(<<"_">>), 5, -1, FALSE), Lit(<<"\n">>),
                  LazyStar(Dot), Lit(<<"O", "r", "i", "g", "i", "n", "a", "l", " ", "M", "e", "s", "s", "a", "g", "e">>), LazyStar(Dot), Lit(<<"\n">>),
                  LazyStar(Dot), Lit(<<"F", "r", "o", "m", ":">>), LazyStar(Dot), Lit(<<"\n">>)>>),
            0, TRUE, TRUE),
     \* /(?:^|\n)On.*?wrote:\n/gi
     RegExp(Cat(<<StartOrNewline, Lit(<<"O", "n">>), LazyStar(Dot), Lit(<<"w", "r", "o", "t", "e", ":", "\n">>)>>),
            0, TRUE, TRUE),
     \* /(?:^|\n)([^-\n]{0,4})(From:.*?)\n(?=(?:(?!---).)*?(?:To:|Sent:|Date:|Subject:))/gi
     RegExp(Cat(<<StartOrNewline,
                  Grp(1, Rep(NotSet({"-", "\n"}), 0, 4, FALSE)),
                  Grp(2, Cat(<<Lit(<<"F", "r", "o", "m", ":">>), LazyStar(Dot)>>)), Lit(<<"\n">>),
                  Look(Cat(<<LazyStar(Cat(<<NotLook(Lit(<<"-", "-", "-">>)), Dot>>)),
                             Alt(<<Lit(<<"T", "o", ":">>), Lit(<<"S", "e", "n", "t", ":">>), Lit(<<"D", "a", "t", "e", ":">>),
                                   Lit(<<"S", "u", "b", "j", "e", "c", "t", ":">>)>>)>>))>>),
            2, TRUE, TRUE),
     \* /(?:^|\n)([^-\n]{0,4})(From:[^\n]+)\n(?!.*?---[^\n]*)/gi
     RegExp(Cat(<<StartOrNewline,
                  Grp(1, Rep(NotSet({"-", "\n"}), 0, 4, FALSE)),
                  Grp(2, Cat(<<Lit(<<"F", "r", "o", "m", ":">>), Plus(NotSet({"\n"}))>>)), Lit(<<"\n">>),
                  NotLook(Cat(<<LazyStar(Dot), Lit(<<"-", "-", "-">>), Star(NotSet({"\n"}))>>))>>),
            2, TRUE, TRUE) >>

\* the callback (match, p1, p2) => ... of the first pass; p1 and p2 are the
\* second and third arguments replace() passes, whatever they are
MarkCallback(match, p1, p2) ==
  IF StartsWith(match, <<"\n", "-", "-", "-", "\n">>) \/ StartsWith(match, <<"-", "-", "-", "\n">>)
  THEN Returned(match)
  \* p1 && p1.trim() === '---': trim exists on strings only
  ELSE IF Truthy(p1) /\ p1.ty # "string" THEN TrimTypeError
  ELSE IF Truthy(p1) /\ Trim(p1.s) = <<"-", "-", "-">> THEN Returned(match)
  ELSE IF p1.ty # "undefined" /\ p2.ty # "undefined"
  THEN IF p1.ty # "string" THEN TrimTypeError
       ELSE IF Trim(p1.s) = <<>> THEN Returned(<<"\n", "-", "-", "-", "\n">> \o p2.s \o <<"\n">>)
       ELSE Returned(p1.s \o <<"-", "-", "-", "\n">> \o p2.s \o <<"\n">>)
  ELSE Returned(<<"\n", "-", "-", "-", "\n">> \o TrimStart(match))

\* /(?:^|\n)(?!---\n)(From: .*?)\n((?:Sent|Date): .*?)\n(To: .*?)\n/gi
secondPattern ==
  RegExp(Cat(<<StartOrNewline, NotLook(Lit(<<"-", "-", "-", "\n">>)),
               Grp(1, Cat(<<Lit(<<"F", "r", "o", "m", ":", " ">>), LazyStar(Dot)>>)), Lit(<<"\n">>),
               Grp(2, Cat(<<SentOrDate, Lit(<<":", " ">>), LazyStar(Dot)>>)), Lit(<<"\n">>),
               Grp(3, Cat(<<Lit(<<"T", "o", ":", " ">>), LazyStar(Dot)>>)), Lit(<<"\n">>)>>),
         3, TRUE, TRUE)

\* /\n(?!---\n)(?!.*?@.*?\n.*?@.*?)(From: [^\n]+)\n/gi
fromLinePattern ==
  RegExp(Cat(<<Lit(<<"\n">>), NotLook(Lit(<<"-", "-", "-", "\n">>)),
               NotLook(Cat(<<LazyStar(Dot), Lit(<<"@">>), LazyStar(Dot), Lit(<<"\n">>),
                             LazyStar(Dot), Lit(<<"@">>), LazyStar(Dot)>>)),
               Grp(1, Cat(<<Lit(<<"F", "r", "o", "m", ":", " ">>), Plus(NotSet({"\n"}))>>)), Lit(<<"\n">>)>>),
         1, TRUE, TRUE)

isLikelyHeader(match) ==
  \/ Includes(match, <<"S", "e", "n", "t", ":">>)
  \/ Includes(match, <<"D", "a", "t", "e", ":">>)
  \/ Includes(match, <<"T", "o", ":">>)
  \/ Test(RegExp(Cat(<<Star(Dot), Lit(<<"@">>), Star(Dot)>>), 0, FALSE, FALSE), match)

\* the callback (match, fromLine) => ... of the third pass
HeaderCallback(match, fromLine) ==
  IF isLikelyHeader(match) THEN <<"\n", "-", "-", "-", "\n">> \o fromLine \o <<"\n">> ELSE match

\* /\n(From:.*?\n(?:(?:Sent|Date|To|Subject):.*?)+\n)/gi
remainingFroms ==
  RegExp(Cat(<<Lit(<<"\n">>),
               Grp(1, Cat(<<Lit(<<"F", "r", "o", "m", ":">>), LazyStar(Dot), Lit(<<"\n">>),
                            Plus(Cat(<<Alt(<<Lit(<<"S", "e", "n", "t">>), Lit(<<"D", "a", "t", "e">>), Lit(<<"T", "o">>),
                                             Lit(<<"S", "u", "b", "j", "e", "c", "t">>)>>),
                                       Lit(<<":">>), LazyStar(Dot)>>)),
                            Lit(<<"\n">>)>>))>>),
         1, TRUE, TRUE)

\* lines 73-77 and 87-91: the five replacements that remove duplicate
\* separators
cleanupSeparators ==
  << \* /\n---\n---\n/g
     To(G(Lit(<<"\n", "-", "-", "-", "\n", "-", "-", "-", "\n">>)), <<"\n", "-", "-", "-", "\n">>),
     \* /---\n\s*---\n/g
     To(G(Cat(<<Lit(<<"-", "-", "-", "\n">>), Star(Set(WhiteSpace)), Lit(<<"-", "-", "-", "\n">>)>>)), <<"-", "-", "-", "\n">>),
     \* /(\n---\n)[\s\n]*(\n---\n)/g, '$1'
     ToTemplate(RegExp(Cat(<<Grp(1, Lit(<<"\n", "-", "-", "-", "\n">>)), Star(Set(WhiteSpace)),
                             Grp(2, Lit(<<"\n", "-", "-", "-", "\n">>))>>), 2, FALSE, TRUE),
                <<Dollar(1)>>),
     \* /(---\n)+/g
     To(RegExp(Plus(Grp(1, Lit(<<"-", "-", "-", "\n">>))), 1, FALSE, TRUE), <<"-", "-", "-", "\n">>),
     \* /^---\n/
     To(RegExp(Cat(<<Bol, Lit(<<"-", "-", "-", "\n">>)>>), 0, FALSE, FALSE), <<>>) >>

\* the statements of markQuotedEmails, in order
markerRules ==
  [k \in 1..Len(patterns) |-> Rule(patterns[k], "mark", <<>>, 0)]
  \o << \* '\n---\n$1\n$2\n$3\n'
        ToTemplate(secondPattern,
                   <<Text(<<"\n", "-", "-", "-", "\n">>), Dollar(1), Text(<<"\n">>), Dollar(2),
                     Text(<<"\n">>), Dollar(3), Text(<<"\n">>)>>),
        Rule(fromLinePattern, "header", <<>>, 0) >>
  \o cleanupSeparators
  \o << \* /([^\n])---\n/g, '$1\n---\n'
        ToTemplate(RegExp(Cat(<<Grp(1, NotSet({"\n"})), Lit(<<"-", "-", "-", "\n">>)>>),
                          1, FALSE, TRUE),
                   <<Dollar(1), Text(<<"\n", "-", "-", "-", "\n">>)>>),
        \* '\n---\n$1'
        ToTemplate(remainingFroms, <<Text(<<"\n", "-", "-", "-", "\n">>), Dollar(1)>>) >>
  \o cleanupSeparators

markQuotedEmails(text) == Apply(markerRules, 1, Returned(text))

(***************************************************************************)
(* htmlToText: options                                                     *)
(***************************************************************************)
\* the two kinds of value of the wordwrap option (number | false)
JsNum(n) == [ty |-> "number", n |-> n, b |-> FALSE]

JsBool(b) == [ty |-> "boolean", n |-> 0, b |-> b]

defaultOptions ==
  [wordwrap |-> JsNum(80), preserveNewlines |-> TRUE, tables |-> TRUE,
   uppercaseHeadings |-> FALSE, preserveHrefLinks |-> TRUE, bulletIndent |-> 2,
   listIndent |-> 2, headingStyle |-> "linebreak", maxLineLength |-> 100]

\* { ...defaults, ...options }: the fields of options win
Merge(defaults, options) ==
  [f \in (DOMAIN defaults) \cup (DOMAIN options) |->
     IF f \in DOMAIN options THEN options[f] ELSE defaults[f]]

\* n spaces (none for a count that is not positive)
Spaces(n) == [k \in 1..n |-> " "]

\* ' '.repeat(n): a RangeError for a negative count
Repeat(n) ==
  IF n < 0 THEN Thrown(<<"R", "a", "n", "g", "e", "E", "r", "r", "o", "r", ":", " ", "I", "n", "v", "a", "l", "i", "d", " ", "c", "o", "u", "n", "t", " ", "v", "a", "l", "u", "e", ":", " ", "-">> \o NumToString(-n))
  ELSE Returned(Spaces(n))

\* settings.bulletIndent || 2
OrTwo(n) == IF n = 0 THEN 2 ELSE n

(***************************************************************************)
(* htmlToText, lines 145-153: HTML entities                                *)
(***************************************************************************)
\* /&#(\d+);/g
decimalEntity ==
  RegExp(Cat(<<Lit(<<"&", "#">>), Grp(1, Plus(Set(Digits))), Lit(<<";">>)>>), 1, FALSE, TRUE)

\* /&#x([0-9a-f]+);/gi
hexEntity ==
  RegExp(Cat(<<Lit(<<"&", "#", "x">>), Grp(1, Plus(Set(HexDigits))), Lit(<<";">>)>>),
         1, TRUE, TRUE)

entityRules ==
  << To(G(Lit(<<"&", "n", "b", "s", "p", ";">>)), <<" ">>),
     To(G(Lit(<<"&", "l", "t", ";">>)), <<"<">>),
     To(G(Lit(<<"&", "g", "t", ";">>)), <<">">>),
     To(G(Lit(<<"&", "a", "m", "p", ";">>)), <<"&">>),
     To(G(Lit(<<"&", "q", "u", "o", "t", ";">>)), <<"\"">>),
     To(G(Lit(<<"&", "a", "p", "o", "s", ";">>)), <<"'">>),
     Rule(decimalEntity, "charcode", <<>>, 10),
     Rule(hexEntity, "charcode", <<>>, 16) >>

(***************************************************************************)
(* htmlToText, lines 158-170: quoted-email pre-processing                  *)
(***************************************************************************)
\* /<blockquote[^>]*>|<div[^>]*style=["'][^"']*border-left[^>]*>/gi
quoteOpen ==
  Gi(Alt(<<OpenTag(<<"b", "l", "o", "c", "k", "q", "u", "o", "t", "e">>),
           Cat(<<Lit(<<"<", "d", "i", "v">>), NotGtStar, Lit(<<"s", "t", "y", "l", "e", "=">>), Set({"\"", "'"}),
                 Star(NotSet({"\"", "'"})), Lit(<<"b", "o", "r", "d", "e", "r", "-", "l", "e", "f", "t">>), NotGtStar,
                 Lit(<<">">>)>>)>>))

\* /<\/blockquote>|<\/div>/gi
quoteClose == Gi(Alt(<<CloseTag(<<"b", "l", "o", "c", "k", "q", "u", "o", "t", "e">>), CloseTag(<<"d", "i", "v">>)>>))

\* /(\n)(From: [^\n]+)/gi
fromAfterNewline ==
  RegExp(Cat(<<Grp(1, Lit(<<"\n">>)),
               Grp(2, Cat(<<Lit(<<"F", "r", "o", "m", ":", " ">>), Plus(NotSet({"\n"}))>>))>>),
         2, TRUE, TRUE)

\* From:\s+[^<]*?
FromHeader == Cat(<<Lit(<<"F", "r", "o", "m", ":">>), Plus(Set(WhiteSpace)), LazyStar(NotSet({"<"}))>>)

\* /<p[^>]*>\s*(From:\s+[^<]*?)<br\s*\/?>/gi
fromBeforeBr ==
  RegExp(Cat(<<OpenTag(<<"p">>), Star(Set(WhiteSpace)), Grp(1, FromHeader),
               Lit(<<"<", "b", "r">>), Star(Set(WhiteSpace)), Opt(Lit(<<"/">>)), Lit(<<">">>)>>),
         1, TRUE, TRUE)

\* /<p[^>]*>\s*(From:\s+[^<]*?)(\s*<\/p>)/gi
fromBeforeEndP ==
  RegExp(Cat(<<OpenTag(<<"p">>), Star(Set(WhiteSpace)), Grp(1, FromHeader),
               Grp(2, Cat(<<Star(Set(WhiteSpace)), CloseTag(<<"p">>)>>))>>),
         2, TRUE, TRUE)

quoteRules ==
  << To(quoteOpen, <<"\n", "-", "-", "-", "\n">>),
     To(quoteClose, <<>>),
     \* '$1---\n$2'
     ToTemplate(fromAfterNewline, <<Dollar(1), Text(<<"-", "-", "-", "\n">>), Dollar(2)>>),
     To(Gi(OpenTagAttrs(<<"d", "i", "v">>)), <<"<", "d", "i", "v", ">">>),
     \* '<p>---\n$1'
     ToTemplate(fromBeforeBr, <<Text(<<"<", "p", ">", "-", "-", "-", "\n">>), Dollar(1)>>),
     \* '<p>---\n$1$2'
     ToTemplate(fromBeforeEndP, <<Text(<<"<", "p", ">", "-", "-", "-", "\n">>), Dollar(1), Dollar(2)>>) >>

(***************************************************************************)
(* htmlToText, lines 173-212: line breaks, paragraphs, headings            *)
(***************************************************************************)
\* /<br\s*\/?>/gi
brTag ==
  Gi(Cat(<<Lit(<<"<", "b", "r">>), Star(Set(WhiteSpace)), Opt(Lit(<<"/">>)), Lit(<<">">>)>>))

lineBreakRules ==
  << To(brTag, <<"\n">>),
     To(Gi(OpenTagAttrs(<<"p">>)), <<"<", "p", ">">>),
     To(Gi(CloseTag(<<"p">>)), <<"\n">>) >>

\* what the opening tag of a heading of the given level becomes
HeadingOpen(headingStyle, level) ==
  IF headingStyle = "hashify"
  THEN <<"\n">> \o [k \in 1..level |-> "#"] \o <<" ">>
  ELSE <<"\n">>

\* /<\/h[1-6]>/gi
headingClose ==
  Gi(Cat(<<Lit(<<"<", "/", "h">>), Set({"1", "2", "3", "4", "5", "6"}), Lit(<<">">>)>>))

\* /<hN\s[^>]*>/gi for N = 1..6, then the closing tags
headingRules(headingStyle) ==
  [level \in 1..6 |->
     To(Gi(OpenTagAttrs(<<"h">> \o <<DigitChars[level + 1]>>)),
        HeadingOpen(headingStyle, level))]
  \o <<To(headingClose, <<"\n">>)>>

(***************************************************************************)
(* processOrderedLists                                                     *)
(***************************************************************************)
\* /<ol[^>]*>([\s\S]*?)<\/ol>/gi
olRegex ==
  RegExp(Cat(<<OpenTag(<<"o", "l">>), Grp(1, LazyStar(AnyChar)), CloseTag(<<"o", "l">>)>>),
         1, TRUE, TRUE)

\* /<li[^>]*>([\s\S]*?)(?=<\/li>)/gi
olItem ==
  RegExp(Cat(<<OpenTag(<<"l", "i">>), Grp(1, LazyStar(AnyChar)), Look(CloseTag(<<"l", "i">>))>>),
         1, TRUE, TRUE)

\* `\n${indent}${itemNumber++}. `: itemNumber is 1 for the first item of a
\* list and grows by one with each item
ItemNumber(indent, itemNumber) ==
  <<"\n">> \o indent \o NumToString(itemNumber) \o <<".", " ">>

\* the callback of processOrderedLists
NumberItems(match, indent) ==
  Apply(<< Rule(olItem, "item", indent, 0),
           To(Gi(OpenTag(<<"o", "l">>)), <<"\n">>),
           To(Gi(CloseTag(<<"o", "l">>)), <<"\n">>),
           To(Gi(CloseTag(<<"l", "i">>)), <<>>) >>,
        1, Returned(match)).text

processOrderedLists(text, indent) ==
  Apply(<<Rule(olRegex, "ol", indent, 0)>>, 1, Returned(text)).text

(***************************************************************************)
(* htmlToText, lines 216-225: lists                                        *)
(***************************************************************************)
\* the bullet of the source text: the three characters U+00E2 U+20AC U+00A2
Bullet == <<"U+00E2", "U+20AC", "U+00A2">>

listRules(settings) ==
  << Rule(NoRegExp, "repeat", <<>>, OrTwo(settings.bulletIndent)),
     Rule(NoRegExp, "repeat", <<>>, OrTwo(settings.listIndent)),
     To(Gi(OpenTagAttrs(<<"l", "i">>)), <<"<", "l", "i", ">">>),
     To(Gi(Lit(<<"<", "l", "i", ">">>)),
        <<"\n">> \o Spaces(OrTwo(settings.bulletIndent)) \o Bullet \o <<" ">>),
     Rule(NoRegExp, "processOrderedLists",
          Spaces(OrTwo(settings.listIndent)), 0) >>

(***************************************************************************)
(* processTables, extractTableRows                                         *)
(***************************************************************************)
\* /<tr[^>]*>([\s\S]*?)<\/tr>/gi
rowRegex ==
  RegExp(Cat(<<OpenTag(<<"t", "r">>), Grp(1, LazyStar(AnyChar)), CloseTag(<<"t", "r">>)>>),
         1, TRUE, TRUE)

\* /<(td|th)[^>]*>([\s\S]*?)(?=<\/\1>)/gi
cellRegex ==
  RegExp(Cat(<<Lit(<<"<">>), Grp(1, Alt(<<Lit(<<"t", "d">>), Lit(<<"t", "h">>)>>)), NotGtStar,
               Lit(<<">">>), Grp(2, LazyStar(AnyChar)),
               Look(Cat(<<Lit(<<"<", "/">>), Ref(1), Lit(<<">">>)>>))>>),
         2, TRUE, TRUE)

\* the text of a cell: tags stripped, runs of white space made one space,
\* trimmed
CellText(content) ==
  Trim(Apply(<< To(AnyTag, <<>>), To(G(Plus(Set(WhiteSpace))), <<" ">>) >>,
             1, Returned(content)).text)

\* the inner loop of extractTableRows: the cells of the matches of cellRegex
CellsOf(cellMatches) ==
  [k \in 1..Len(cellMatches) |-> CellText(Cap(cellMatches[k], 2))]

\* the outer loop of extractTableRows: the rows of the matches of rowRegex
\* that hold a cell
RowsOf(rowMatches) ==
  SelectSeq([k \in 1..Len(rowMatches) |->
               CellsOf(MatchAll(cellRegex, Cap(rowMatches[k], 1), 1))],
            LAMBDA cells : Len(cells) > 0)

extractTableRows(tableHtml) == RowsOf(MatchAll(rowRegex, tableHtml, 1))

\* /<table[^>]*>([\s\S]*?)<\/table>/gi
tableRegex ==
  RegExp(Cat(<<OpenTag(<<"t", "a", "b", "l", "e">>), Grp(1, LazyStar(AnyChar)), CloseTag(<<"t", "a", "b", "l", "e">>)>>),
         1, TRUE, TRUE)

\* /<thead[^>]*>([\s\S]*?)<\/thead>/i
theadRegex ==
  RegExp(Cat(<<OpenTag(<<"t", "h", "e", "a", "d">>), Grp(1, LazyStar(AnyChar)), CloseTag(<<"t", "h", "e", "a", "d">>)>>),
         1, TRUE, FALSE)

\* /<tbody[^>]*>([\s\S]*?)<\/tbody>/i
tbodyRegex ==
  RegExp(Cat(<<OpenTag(<<"t", "b", "o", "d", "y">>), Grp(1, LazyStar(AnyChar)), CloseTag(<<"t", "b", "o", "d", "y">>)>>),
         1, TRUE, FALSE)

\* the least number of columns of a rendered table
MinCols == 3

\* the rows of a section of the table: of the match of thead or of tbody
SectionRows(sectionMatch) ==
  IF sectionMatch.ok THEN extractTableRows(Cap(sectionMatch, 1)) ELSE <<>>

\* every row found in the table itself, whatever its sections hold
AllRows(match, sectionRows) == extractTableRows(match)

\* the rows of the table: those of its head and body, and without them the
\* rows found in the table itself
TableRows(match, sectionRows) ==
  IF Len(sectionRows) = 0 THEN extractTableRows(match) ELSE sectionRows

\* the text of the rows, each cut or filled to maxCols cells
FormatRows(rows) ==
  LET widths == {MinCols} \cup {Len(rows[k]) : k \in 1..Len(rows)}
      maxCols == CHOOSE w \in widths : \A v \in widths : v <= w
      cell(row, i) == (IF i <= Len(row) THEN row[i] ELSE <<>>) \o <<" ", "|", " ">>
      rowText(row) ==
        <<"|", " ">> \o ConcatAll([i \in 1..maxCols |-> cell(row, i)], 1, maxCols)
      line(k) == TrimRight(rowText(rows[k])) \o <<"\n">>
  IN  <<"\n">> \o ConcatAll([k \in 1..Len(rows) |-> line(k)], 1, Len(rows)) \o <<"\n">>

\* the callback of processTables
FormatTable(match) ==
  FormatRows(TableRows(match,
                       SectionRows(Exec(theadRegex, match, 1))
                       \o SectionRows(Exec(tbodyRegex, match, 1))))

processTables(text) ==
  Apply(<<Rule(tableRegex, "table", <<>>, 0)>>, 1, Returned(text)).text

(***************************************************************************)
(* processLinks                                                            *)
(***************************************************************************)
\* /<a\s+(?:[^>]*?\s+)?href=(["'])(.*?)\1[^>]*>(.*?)<\/a>/gi
linkRegex ==
  RegExp(Cat(<<Lit(<<"<", "a">>), Plus(Set(WhiteSpace)),
               Opt(Cat(<<LazyStar(NotSet({">"})), Plus(Set(WhiteSpace))>>)),
               Lit(<<"h", "r", "e", "f", "=">>), Grp(1, Set({"\"", "'"})), Grp(2, LazyStar(Dot)),
               Ref(1), NotGtStar, Lit(<<">">>), Grp(3, LazyStar(Dot)), Lit(<<"<", "/", "a", ">">>)>>),
         3, TRUE, TRUE)

\* linkText.replace(/<[^>]*>/g, '').trim()
CleanLinkText(linkText) ==
  Trim(Apply(<<To(AnyTag, <<>>)>>, 1, Returned(linkText)).text)

\* the text of a link with the clean text of its anchor
LinkWith(url, cleanLinkText) ==
  IF url = cleanLinkText \/ url = <<"m", "a", "i", "l", "t", "o", ":">> \o cleanLinkText
  THEN cleanLinkText
  ELSE cleanLinkText \o <<" ", "[">> \o url \o <<"]">>

\* the callback of processLinks
FormatLink(url, linkText) == LinkWith(url, CleanLinkText(linkText))

processLinks(text) ==
  Apply(<<Rule(linkRegex, "link", <<>>, 0)>>, 1, Returned(text)).text

(***************************************************************************)
(* htmlToText, lines 238-266: blockquotes, pre, hr, character styles, and  *)
(* the removal of the tags that remain                                     *)
(***************************************************************************)
\* the rule that <hr> becomes
HorizontalRule == <<"\n", "-", "-", "-", "-", "-", "-", "-", "-", "-", "-", "-", "-", "-", "-", "-", "-", "-", "-", "-", "-", "-", "-", "-", "-", "-", "-", "-", "-", "\n">>

\* />\s+>/g
nestedQuote == G(Cat(<<Lit(<<">">>), Plus(Set(WhiteSpace)), Lit(<<">">>)>>))

blockRules ==
  << To(Gi(OpenTag(<<"b", "l", "o", "c", "k", "q", "u", "o", "t", "e">>)), <<"\n", ">", " ">>),
     To(Gi(CloseTag(<<"b", "l", "o", "c", "k", "q", "u", "o", "t", "e">>)), <<"\n">>),
     To(nestedQuote, <<">", ">">>),
     To(Gi(OpenTag(<<"p", "r", "e">>)), <<"\n">>),
     To(Gi(CloseTag(<<"p", "r", "e">>)), <<"\n">>),
     To(Gi(OpenTag(<<"h", "r">>)), HorizontalRule) >>

styleRules ==
  << To(Gi(Alt(<<Lit(<<"<", "b", ">">>), OpenTag(<<"s", "t", "r", "o", "n", "g">>)>>)), <<>>),
     To(Gi(Alt(<<Lit(<<"<", "/", "b", ">">>), Lit(<<"<", "/", "s", "t", "r", "o", "n", "g", ">">>)>>)), <<>>),
     To(Gi(Alt(<<Lit(<<"<", "i", ">">>), OpenTag(<<"e", "m">>)>>)), <<>>),
     To(Gi(Alt(<<Lit(<<"<", "/", "i", ">">>), Lit(<<"<", "/", "e", "m", ">">>)>>)), <<>>),
     To(Gi(OpenTag(<<"u">>)), <<>>),
     To(Gi(Lit(<<"<", "/", "u", ">">>)), <<>>),
     To(Gi(Alt(<<Lit(<<"<", "s", ">">>), Lit(<<"<", "s", "t", "r", "i", "k", "e", ">">>), OpenTag(<<"d", "e", "l">>)>>)), <<>>),
     To(Gi(Alt(<<Lit(<<"<", "/", "s", ">">>), Lit(<<"<", "/", "s", "t", "r", "i", "k", "e", ">">>), Lit(<<"<", "/", "d", "e", "l", ">">>)>>)), <<>>),
     To(Gi(OpenTag(<<"m", "a", "r", "k">>)), <<>>),
     To(Gi(Lit(<<"<", "/", "m", "a", "r", "k", ">">>)), <<>>),
     \* line 266: the tags that remain
     To(AnyTag, <<>>) >>

(***************************************************************************)
(* htmlToText, lines 271-287: URL decoding and white-space cleanup         *)
(***************************************************************************)
\* /%([0-9A-F]{2})/gi
percentCode ==
  RegExp(Cat(<<Lit(<<"%">>), Grp(1, Rep(Set(HexDigits), 2, 2, FALSE))>>),
         1, TRUE, TRUE)

cleanupRules ==
  LET SpTab == Set({" ", "\t"})
  IN
  << Rule(percentCode, "charcode", <<>>, 16),
     \* /\n\s+\n/g
     To(G(Cat(<<Lit(<<"\n">>), Plus(Set(WhiteSpace)), Lit(<<"\n">>)>>)), <<"\n">>),
     \* /\n{2,}/g
     To(G(Rep(Set({"\n"}), 2, -1, FALSE)), <<"\n">>),
     \* /\t/g
     To(G(Lit(<<"\t">>)), <<" ", " ", " ", " ">>),
     \* /[ \t]+\n/g
     To(G(Cat(<<Plus(SpTab), Lit(<<"\n">>)>>)), <<"\n">>),
     \* /^\s+/
     To(RegExp(Cat(<<Bol, Plus(Set(WhiteSpace))>>), 0, FALSE, FALSE), <<>>),
     \* /\s+$/g
     To(G(Cat(<<Plus(Set(WhiteSpace)), Eol>>)), <<>>),
     \* /[ \t]+$/gm
     To(G(Cat(<<Plus(SpTab), EolM>>)), <<>>) >>

(***************************************************************************)
(* applyWordWrap                                                           *)
(***************************************************************************)
\* the least width at which wrapping is done
MinWrapWidth == 10

\* the least width, after the indentation, at which a line is wrapped
MinContentWidth == 10

\* the loop over the words of one line: the lines pushed so far and the
\* current line, after the words k..
RECURSIVE WrapWords(_, _, _, _, _, _)
WrapWords(words, k, indent, width, pushed, currentLine) ==
  IF k > Len(words) THEN [pushed |-> pushed, currentLine |-> currentLine]
  ELSE IF Len(currentLine) + Len(words[k]) > width /\ Len(currentLine) > Len(indent)
  THEN WrapWords(words, k + 1, indent, width,
                 Append(pushed, TrimRight(currentLine)), indent \o words[k])
  ELSE IF Len(currentLine) > Len(indent)
  THEN WrapWords(words, k + 1, indent, width, pushed,
                 currentLine \o <<" ">> \o words[k])
  ELSE WrapWords(words, k + 1, indent, width, pushed, currentLine \o words[k])

\* line.match(/^(\s+)/) ? indentMatch[1] : ''
IndentOf(indentMatch) == IF indentMatch.ok THEN Cap(indentMatch, 1) ELSE <<>>

\* the lines pushed inside the loop only
PushedInLoop(done) == done.pushed

\* the lines pushed for one line, from the state of the loop at its end
Wrapped(done) ==
  IF Trim(done.currentLine) # <<>>
  THEN Append(done.pushed, TrimRight(done.currentLine))
  ELSE done.pushed

\* the lines that a line with the given indentation becomes
WrapIndented(line, width, indent) ==
  IF width - Len(indent) < MinContentWidth THEN <<line>>
  ELSE Wrapped(WrapWords(SplitRe(G(Plus(Set(WhiteSpace))),
                                 SubSeq(line, Len(indent) + 1, Len(line))),
                         1, indent, width, <<>>, indent))

\* the lines that one line of the text becomes
WrapLine(line, width) ==
  IF Trim(line) = <<>> \/ StartsWith(Trim(line), <<">">>)
     \/ StartsWith(Trim(line), <<"|">>)
  THEN <<line>>
  ELSE WrapIndented(line, width,
                    IndentOf(Exec(RegExp(Cat(<<Bol, Grp(1, Plus(Set(WhiteSpace)))>>),
                                         1, FALSE, FALSE), line, 1)))

\* the wrapped lines of the lines of the text
WrapLines(lines, width) ==
  ConcatAll([k \in 1..Len(lines) |-> WrapLine(lines[k], width)], 1, Len(lines))

applyWordWrap(text, width) ==
  IF width < MinWrapWidth THEN text
  ELSE Join(WrapLines(Split(text, <<"\n">>), width), <<"\n">>)

(***************************************************************************)
(* The steps                                                               *)
(***************************************************************************)
\* the lines as they are
KeepEach(lines) == lines

\* lines 300-302: trailing white space removed from every line
TrimEach(lines) == [k \in 1..Len(lines) |-> TrimRight(lines[k])]

TrimLines(text) == Join(TrimEach(Split(text, <<"\n">>)), <<"\n">>)

\* what replace() puts in the place of m, the k-th match of rule.rx in s:
\* the replacement string, or what the callback returns or throws
Replacement(rule, s, m, k) ==
  CASE rule.by = "string" -> Returned(rule.new)
    [] rule.by = "template" -> Returned(Expand(rule.new, m))
    \* String.fromCharCode(dec), String.fromCharCode(parseInt(hex, 16))
    [] rule.by = "charcode" -> Returned(FromCharCode(ParseInt(Cap(m, 1), rule.n)))
    [] rule.by = "item" -> Returned(ItemNumber(rule.new, k))
    [] rule.by = "ol" -> Returned(NumberItems(m.str, rule.new))
    [] rule.by = "table" -> Returned(FormatTable(m.str))
    [] rule.by = "link" -> Returned(FormatLink(Cap(m, 2), Cap(m, 3)))
    [] rule.by = "mark" -> MarkCallback(m.str, CallbackArg(rule.rx, s, m, 1),
                                        CallbackArg(rule.rx, s, m, 2))
    [] rule.by = "header" -> Returned(HeaderCallback(m.str, Cap(m, 1)))

\* s with its matches ms replaced by what rs returned; the first of rs that
\* threw ends the call
Spliced(s, ms, rs) ==
  IF \E k \in 1..Len(rs) : rs[k].threw
  THEN rs[CHOOSE k \in 1..Len(rs) :
            rs[k].threw /\ \A j \in 1..(k - 1) : ~rs[j].threw]
  ELSE Returned(Splice(s, ms, [k \in 1..Len(rs) |-> rs[k].text]))

\* String.prototype.replace(rule.rx, ...) on s, whose matches are ms
ReplaceAll(rule, s, ms) ==
  IF Len(ms) = 0 THEN Returned(s)
  ELSE Spliced(s, ms, [k \in 1..Len(ms) |-> Replacement(rule, s, ms[k], k)])

\* one statement of the converter on the text s
Step(rule, s) ==
  CASE rule.by = "repeat" ->
         IF Repeat(rule.n).threw THEN Repeat(rule.n) ELSE Returned(s)
    [] rule.by = "processOrderedLists" ->
         Returned(processOrderedLists(s, rule.new))
    [] rule.by = "processTables" -> Returned(processTables(s))
    [] rule.by = "processLinks" -> Returned(processLinks(s))
    [] rule.by = "applyWordWrap" -> Returned(applyWordWrap(s, rule.n))
    [] rule.by = "markQuotedEmails" -> markQuotedEmails(s)
    [] rule.by = "trimLines" -> Returned(TrimLines(s))
    [] OTHER -> ReplaceAll(rule, s, MatchAll(rule.rx, s, 1))

Apply(rules, k, t) ==
  IF k > Len(rules) \/ t.threw THEN t
  ELSE Apply(rules, k + 1, Step(rules[k], t.text))

(***************************************************************************)
(* htmlToText                                                              *)
(***************************************************************************)
\* the statements of lines 145-302 under the given settings, in order
htmlRules(settings) ==
  entityRules \o quoteRules \o lineBreakRules
  \o headingRules(settings.headingStyle)
  \o listRules(settings)
  \o (IF settings.tables THEN <<Rule(NoRegExp, "processTables", <<>>, 0)>> ELSE <<>>)
  \o (IF settings.preserveHrefLinks THEN <<Rule(NoRegExp, "processLinks", <<>>, 0)>> ELSE <<>>)
  \o blockRules \o styleRules \o cleanupRules
  \* settings.wordwrap && typeof settings.wordwrap === 'number'
  \o (IF settings.wordwrap.ty = "number" /\ settings.wordwrap.n # 0
      THEN <<Rule(NoRegExp, "applyWordWrap", <<>>, settings.wordwrap.n)>> ELSE <<>>)
  \o <<Rule(NoRegExp, "markQuotedEmails", <<>>, 0), Rule(NoRegExp, "trimLines", <<>>, 0)>>

\* lines 145-304: the conversion of a text that holds a tag
ConvertHtml(html, settings) == Apply(htmlRules(settings), 1, Returned(html))

\* the converter without its quick exit for a text that holds no tag
htmlToTextNoQuickExit(html, options) ==
  ConvertHtml(html, Merge(defaultOptions, options))

htmlToText(html, options) ==
  IF ~Includes(html, <<"<">>) THEN Returned(html)
  ELSE ConvertHtml(html, Merge(defaultOptions, options))

\* lines 135-305 with the module-level record defaultOptions as it stands
\* at the time of the call
htmlToTextFrom(defaults, html, options) ==
  IF ~Includes(html, <<"<">>) THEN Returned(html)
  ELSE ConvertHtml(html, Merge(defaults, options))

\* Object.assign(defaultOptions, options): the module-level record takes
\* the fields of the options
AssignedDefaults(defaults, options) == Merge(defaults, options)

\* line 137, { ...defaultOptions, ...options }: the spread builds a new
\* record and leaves the module-level record as it is
SpreadDefaults(defaults, options) == defaults

(***************************************************************************)
(* The convert-html-to-text tool (src/src/mcp-server-outline.ts)           *)
(***************************************************************************)
\* the defaults of the tool handler
toolDefaultOptions ==
  [wordwrap |-> JsNum(100), preserveNewlines |-> TRUE, tables |-> TRUE,
   preserveHrefLinks |-> TRUE, headingStyle |-> "linebreak",
   hideQuotedContent |-> FALSE]

\* the separator the marker writes and the handler splits on
Separator == <<"\n", "-", "-", "-", "\n">>

\* what the handler writes in the place of the quoted messages
Notice == <<"\n", "\n", "[", "P", "r", "i", "o", "r", " ", "q", "u", "o", "t", "e", "d", " ", "m", "e", "s", "s", "a", "g", "e", "s", " ", "r", "e", "m", "o", "v", "e", "d", "]">>

\* the cut with the text before the last separator kept
KeepBeforeLast(parts, plainText) ==
  IF Len(parts) > 1
  THEN Join(SubSeq(parts, 1, Len(parts) - 1), Separator) \o Notice
  ELSE plainText

\* parts.length > 1 ? parts[0] + notice : plainText
KeepFirst(parts, plainText) ==
  IF Len(parts) > 1 THEN parts[1] \o Notice ELSE plainText

\* the handler with the text before the last separator kept
HideQuotedBeforeLast(plainText) ==
  KeepBeforeLast(Split(plainText, Separator), plainText)

\* lines 683-688: the main message alone, and a notice
HideQuoted(plainText) == KeepFirst(Split(plainText, Separator), plainText)

\* the response of the handler to a conversion that returned or threw
ToolResponse(converted, convertOptions) ==
  IF converted.threw
  THEN [isError |-> TRUE,
        text |-> <<"E", "r", "r", "o", "r", " ", "c", "o", "n", "v", "e", "r", "t", "i", "n", "g", " ", "H", "T", "M", "L", " ", "t", "o", " ", "t", "e", "x", "t", ":", " ">> \o converted.text]
  ELSE [isError |-> FALSE,
        text |-> IF convertOptions.hideQuotedContent
                 THEN HideQuoted(converted.text) ELSE converted.text]

(***************************************************************************)
(* The calls and their arguments                                           *)
(***************************************************************************)
\* the number of fragments an HTML argument is made of, at most
MaxParts == 2

\* the number of blocks of lines a text handed to the marker is made of, at
\* most
MaxBlocks == 3

\* the texts made of at most n of the fragments, one after the other with
\* sep between them
RECURSIVE Texts(_, _, _)
Texts(frags, n, sep) ==
  IF n = 0 THEN {<<>>}
  ELSE LET shorter == Texts(frags, n - 1, sep)
       IN  shorter \cup {(IF t = <<>> THEN t ELSE t \o sep) \o frags[i] :
                          t \in shorter, i \in 1..Len(frags)}

OrderedList == <<"<", "o", "l", ">", "<", "l", "i", ">", "O", "n", "e", "<", "/", "l", "i", ">", "<", "l", "i", ">", "T", "w", "o", "<", "/", "l", "i", ">", "<", "/", "o", "l", ">">>

UnorderedList == <<"<", "u", "l", ">", "<", "l", "i", ">", "O", "n", "e", "<", "/", "l", "i", ">", "<", "l", "i", ">", "T", "w", "o", "<", "/", "l", "i", ">", "<", "/", "u", "l", ">">>

\* texts with entities, and what they stand for
Entities == <<<<"A", " ", "&", "a", "m", "p", ";", " ", "B">>, <<"&", "q", "u", "o", "t", ";", "&", "a", "p", "o", "s", ";", "&", "#", "6", "5", ";", "&", "#", "x", "4", "2", ";">>, <<"&", "g", "t", ";", " ", "1", "&", "n", "b", "s", "p", ";", "&", "l", "t", ";", " ", "2">>>>

Literals == <<<<"A", " ", "&", " ", "B">>, <<"\"", "'", "A", "B">>, <<">", " ", "1", " ", "<", " ", "2">>>>

\* fragments of the HTML handed to htmlToText
HtmlFragments ==
  <<<<"<", "p", ">">>>> \o Entities
  \o <<<<"%", "3", "C", "b", "%", "3", "E">>, <<"O", "n", " ", "x", " ", "w", "r", "o", "t", "e", ":", "\n", "h", "i">>, OrderedList, UnorderedList>>

\* the options handed to htmlToText: omitted, and records of some of them
OptionChoices ==
  << <<>>,
     [bulletIndent |-> 4, listIndent |-> 3],
     [wordwrap |-> JsNum(12), headingStyle |-> "hashify", tables |-> FALSE],
     [bulletIndent |-> -1] >>

\* fragments of the HTML handed to the tool
ToolFragments ==
  <<<<"<", "p", ">", "M", "a", "i", "n", " ", "r", "e", "p", "l", "y", "<", "/", "p", ">">>, <<"<", "b", "l", "o", "c", "k", "q", "u", "o", "t", "e", ">", "o", "l", "d">>, <<"<", "b", "l", "o", "c", "k", "q", "u", "o", "t", "e", ">", "o", "l", "d", "<", "b", "l", "o", "c", "k", "q", "u", "o", "t", "e", ">", "o", "l", "d", "e", "r">>,
    <<"p", "l", "a", "i", "n", " ", "-", "-", "-", " ", "t", "e", "x", "t">>, <<"<", "p", ">", "O", "n", " ", "x", " ", "w", "r", "o", "t", "e", ":", "\n", "h", "i", "<", "/", "p", ">">>, <<"<", "h", "r", ">">>>>

\* the options handed to the tool
ToolOptionChoices ==
  << <<>>,
     [hideQuotedContent |-> TRUE],
     [hideQuotedContent |-> FALSE, wordwrap |-> JsBool(FALSE)],
     [hideQuotedContent |-> TRUE, listIndent |-> -2] >>

HeaderBlock == <<"F", "r", "o", "m", ":", " ", "a", "@", "b", ".", "c", "o", "m", "\n", "S", "e", "n", "t", ":", " ", "M", "o", "n", "d", "a", "y", "\n", "T", "o", ":", " ", "c", "@", "d", ".", "c", "o", "m", "\n", "S", "u", "b", "j", "e", "c", "t", ":", " ", "H", "i">>

\* blocks of lines of the text handed to the marker: the cleanup before it
\* leaves lines that are not empty, with one newline between them
MarkerBlocks ==
  <<<<"H", "i">>, HeaderBlock, <<"-", "-", "-">>, <<"b", "o", "d", "y">>, <<"F", "r", "o", "m", ":", " ", "a", "@", "b", ".", "c", "o", "m">>, <<"T", "o", ":", " ", "c", "@", "d", ".", "c", "o", "m">>,
    <<"S", "e", "n", "t", ":", " ", "M", "o", "n", "d", "a", "y">>, <<"O", "n", " ", "x", " ", "w", "r", "o", "t", "e", ":">>>>

VARIABLES
  html,      \* the html argument of the call
  options,   \* its options argument
  pc,        \* how far the call has come
  result,    \* what htmlToText returned or threw
  again,     \* what htmlToText returned or threw for its own output
  text,      \* the text handed to markQuotedEmails
  marked,    \* what markQuotedEmails returned or threw
  response,  \* the response of the tool
  moduleDefaults,   \* the module-level record defaultOptions as it stands
  calls,            \* the calls of htmlToText made so far
  path,             \* the folderPathOrId argument of resolveFolderPath
  userEmail,        \* its userEmail argument
  folderId,         \* what resolveFolderPath returned or threw
  folderPathCache,  \* MailService.folderPathCache
  folderIdCache,    \* MailService.folderIdCache
  requests,         \* the requests that the call of resolveFolderPath sent to Graph
  resolved,         \* the paths that resolveFolderPath has resolved, with their IDs
  now,              \* the day that new Date() gives
  passed,           \* the dateFilters object as the caller of listEmails made it
  dateFilters,      \* the same object after the call
  filterString,     \* the $filter that listEmails sent
  mailboxes,        \* the folders that Graph holds for every user
  running,          \* the calls begun on the MailService instance, in the order of their beginning
  changed           \* whether a folder-changing operation has been begun

\* the state of the converter and of its callers
textVars == <<html, options, result, again, text, marked, response, moduleDefaults, calls>>

\* the state of the mail service and of its callers
listVars == <<now, passed, dateFilters, filterString>>

asyncVars == <<mailboxes, running, changed>>

mailVars == <<path, userEmail, folderId, folderPathCache, folderIdCache, requests, resolved,
              listVars, asyncVars>>

vars == <<pc, textVars, mailVars>>

\* the mailboxes of the directory: for every user the folders that Graph
\* lists, in the order of the listing
Mailboxes ==
  [user \in {<<"u", "1">>, <<"u", "2">>} |->
     IF user = <<"u", "1">>
     THEN << [id |-> <<"I", "1">>, displayName |-> <<"I", "n", "b", "o", "x">>, parentFolderId |-> <<>>],
             [id |-> <<"I", "2">>, displayName |-> <<"S", "u", "b">>, parentFolderId |-> <<"I", "1">>],
             [id |-> <<"I", "3">>, displayName |-> <<"A", "r", "c", "h", "i", "v", "e">>, parentFolderId |-> <<>>],
             [id |-> <<"I", "4">>, displayName |-> <<"S", "U", "B">>, parentFolderId |-> <<"I", "3">>] >>
     ELSE << [id |-> <<"J", "1">>, displayName |-> <<"I", "N", "B", "O", "X">>, parentFolderId |-> <<>>] >>]

\* nothing has been called yet
Idle ==
  /\ pc = "start"
  /\ result = Returned(<<>>)
  /\ again = Returned(<<>>)
  /\ marked = Returned(<<>>)
  /\ response = [isError |-> FALSE, text |-> <<>>]
  /\ moduleDefaults = defaultOptions
  /\ calls = 0
  /\ path = <<>>
  /\ userEmail = <<>>
  /\ folderId = Returned(<<>>)
  \* new Map()
  /\ folderPathCache = <<>>
  /\ folderIdCache = <<>>
  /\ requests = 0
  /\ resolved = {}
  /\ now = [year |-> 1970, month |-> 0, date |-> 1]
  /\ passed = [given |-> FALSE, object |-> <<>>]
  /\ dateFilters = [given |-> FALSE, object |-> <<>>]
  /\ filterString = <<>>
  /\ mailboxes = Mailboxes
  /\ running = <<>>
  /\ changed = FALSE

(***************************************************************************)
(* htmlToText called on an argument, and called again on what it returned  *)
(***************************************************************************)
Init ==
  /\ html \in Texts(HtmlFragments, MaxParts, <<>>)
  /\ \E i \in 1..Len(OptionChoices) : options = OptionChoices[i]
  /\ text = <<>>
  /\ Idle

Convert ==
  /\ pc = "start"
  /\ result' = htmlToText(html, options)
  /\ pc' = "converted"
  /\ UNCHANGED <<html, options, again, text, marked, response, moduleDefaults, calls, mailVars>>

Reconvert ==
  /\ pc = "converted"
  /\ ~result.threw
  /\ again' = htmlToText(result.text, options)
  /\ pc' = "reconverted"
  /\ UNCHANGED <<html, options, result, text, marked, response, moduleDefaults, calls, mailVars>>

Next == Convert \/ Reconvert

Spec == Init /\ [][Next]_vars

(***************************************************************************)
(* markQuotedEmails called on a text                                       *)
(***************************************************************************)
InitMark ==
  /\ text \in Texts(MarkerBlocks, MaxBlocks, <<"\n">>)
  /\ html = <<>>
  /\ options = <<>>
  /\ Idle

Mark ==
  /\ pc = "start"
  /\ marked' = markQuotedEmails(text)
  /\ pc' = "marked"
  /\ UNCHANGED <<html, options, result, again, text, response, moduleDefaults, calls, mailVars>>

NextMark == Mark

SpecMark == InitMark /\ [][NextMark]_vars

(***************************************************************************)
(* The tool called with a request                                          *)
(***************************************************************************)
InitTool ==
  /\ html \in Texts(ToolFragments, MaxParts, <<>>)
  /\ \E i \in 1..Len(ToolOptionChoices) : options = ToolOptionChoices[i]
  /\ text = <<>>
  /\ Idle

\* lines 660-703: the whole handler
Respond ==
  /\ pc = "start"
  /\ result' = htmlToText(html, Merge(toolDefaultOptions, options))
  /\ response' = ToolResponse(result', Merge(toolDefaultOptions, options))
  /\ pc' = "responded"
  /\ UNCHANGED <<html, options, again, text, marked, moduleDefaults, calls, mailVars>>

NextTool == Respond

SpecTool == InitTool /\ [][NextTool]_vars

(***************************************************************************)
(* Properties of htmlToText (under Spec)                                   *)
(***************************************************************************)
\* the settings of the call of htmlToText
Settings == Merge(defaultOptions, options)

\* C1: htmlToText never throws: for every string input and every options
\* record the call returns a string.
NeverThrows ==
  /\ pc # "start" => ~result.threw
  /\ pc = "reconverted" => ~again.threw

\* C2: an input that contains no '<' is returned character for character
\* unchanged, whatever the options: no entity or %XX decoding, no cleanup,
\* no wrapping, no separator.
PassThrough ==
  /\ (pc # "start" /\ ~Includes(html, <<"<">>)) => result = Returned(html)
  /\ (pc = "reconverted" /\ ~Includes(result.text, <<"<">>)) => again = result

\* an input with an entity and a %XX sequence and no '<' has been converted
\* and has come back as it was
PassThroughWitness ==
  /\ pc = "converted"
  /\ html = <<"A", " ", "&", "a", "m", "p", ";", " ", "B", "%", "3", "C", "b", "%", "3", "E">>
  /\ result = Returned(<<"A", " ", "&", "a", "m", "p", ";", " ", "B", "%", "3", "C", "b", "%", "3", "E">>)

\* C3: htmlToText(htmlToText(x)) equals htmlToText(x): the converter returns
\* its own output unchanged.
Idempotent == pc = "reconverted" => again = result

\* C4: every entity of the input is replaced by its literal character in the
\* output; in particular htmlToText("A &amp; B") returns "A & B".
EntitiesDecoded ==
  \A i \in 1..Len(Entities) :
    (pc # "start" /\ html = Entities[i]) => result = Returned(Literals[i])

\* the number of places of s at which p stands
Occurrences(s, p) == Cardinality({i \in 1..(Len(s) + 1) : LitAt(p, s, i, FALSE)})

\* C9: every <li> of an <ol> block becomes a new line of listIndent spaces,
\* 'k. ' and the text of the item, k being the place of the item in its
\* block, from 1 in every block.
OrderedListNumbered ==
  \A n \in 1..MaxParts :
    (/\ pc # "start"
     /\ html = ConcatAll([k \in 1..n |-> OrderedList], 1, n)
     /\ ~result.threw)
    => /\ Occurrences(result.text, <<"1", ".", " ", "O", "n", "e">>) = n
       /\ Occurrences(result.text,
                      <<"\n">> \o Spaces(Settings.listIndent) \o <<"2", ".", " ", "T", "w", "o">>) = n

\* C10: htmlToText("<ul><li>One</li><li>Two</li></ul>") is two lines, in the
\* order of the source, each of them the bullet indent, the glyph U+2022, a
\* space and the text of the item.
UnorderedListBulleted ==
  (pc # "start" /\ html = UnorderedList /\ ~result.threw)
  => result.text = Spaces(Settings.bulletIndent) \o <<"U+2022", " ", "O", "n", "e", "\n">>
                   \o Spaces(Settings.bulletIndent) \o <<"U+2022", " ", "T", "w", "o">>

(***************************************************************************)
(* Properties of markQuotedEmails (under SpecMark)                         *)
(***************************************************************************)
\* the lines of what the marker returned
MarkedLines == Split(marked.text, <<"\n">>)

\* a line without content
Blank(line) == Trim(line) = <<>>

\* C5: a header block From:, Sent:, To:, Subject: that follows other content
\* gets exactly one separator line, immediately before its From: line, and
\* its lines follow the separator unchanged.
QuoteBoundaryInserted ==
  \A before \in {<<"H", "i">>, <<"b", "o", "d", "y">>} : \A after \in {<<>>, <<"\n", "b", "o", "d", "y">>, <<"\n", "H", "i">>} :
    (pc = "marked" /\ text = before \o <<"\n">> \o HeaderBlock \o after)
    => marked = Returned(before \o <<"\n", "-", "-", "-", "\n">> \o HeaderBlock \o after)

\* C6: what the marker returns never holds two separator lines that are
\* adjacent or have only blank lines between them.
NoAdjacentSeparators ==
  (pc = "marked" /\ ~marked.threw)
  => \A i \in 1..Len(MarkedLines) : \A j \in (i + 1)..Len(MarkedLines) :
       ~(/\ MarkedLines[i] = <<"-", "-", "-">>
         /\ MarkedLines[j] = <<"-", "-", "-">>
         /\ \A k \in (i + 1)..(j - 1) : Blank(MarkedLines[k]))

\* C7: no separator line stands before the first line with content in what
\* the marker returns: it begins neither with '---\n' nor with a blank line
\* and '---'.
NoLeadingSeparator ==
  (pc = "marked" /\ ~marked.threw /\ ~Includes(text, <<"-", "-", "-">>))
  => \A i \in 1..Len(MarkedLines) :
       MarkedLines[i] = <<"-", "-", "-">> => \E k \in 1..(i - 1) : ~Blank(MarkedLines[k])

(***************************************************************************)
(* Properties of the convert-html-to-text tool (under SpecTool)            *)
(***************************************************************************)
\* the text before the first place at which sep stands in s
Before(s, sep) == SubSeq(s, 1, IndexOf(s, sep) - 1)

\* what the tool answers with hideQuotedContent on, for a notice
Kept(notice) ==
  IF Merge(toolDefaultOptions, options).hideQuotedContent
     /\ Includes(result.text, Separator)
  THEN Before(result.text, Separator) \o notice
  ELSE result.text

\* C8 as amended: with hideQuotedContent on and newline, '---', newline in
\* the converted text, the answer is the text before the first such place,
\* a blank line and the notice '[Prior quoted messages removed]'; without the
\* sequence, or with hideQuotedContent off, it is the converted text.
HideQuotedContract ==
  (pc = "responded" /\ ~result.threw)
  => response = [isError |-> FALSE,
                 text |-> Kept(<<"\n", "\n", "[", "P", "r", "i", "o", "r", " ", "q", "u", "o", "t", "e", "d", " ", "m", "e", "s", "s", "a", "g", "e", "s", " ", "r", "e", "m", "o", "v", "e", "d", "]">>)]

\* a text with two separators has been cut at the first
HideQuotedWitness ==
  /\ pc = "responded"
  /\ Merge(toolDefaultOptions, options).hideQuotedContent
  /\ result = Returned(<<"M", "a", "i", "n", " ", "r", "e", "p", "l", "y", "\n", "-", "-", "-", "\n", "o", "l", "d", "\n", "-", "-", "-", "\n", "o", "l", "d", "e", "r">>)
  /\ response.text = <<"M", "a", "i", "n", " ", "r", "e", "p", "l", "y", "\n", "\n", "[", "P", "r", "i", "o", "r", " ", "q", "u", "o", "t", "e", "d", " ", "m", "e", "s", "s", "a", "g", "e", "s", " ", "r", "e", "m", "o", "v", "e", "d", "]">>

\* C8: with hideQuotedContent on and newline, '---', newline in the converted
\* text, the answer is exactly the text before the first such place followed
\* by the notice '[Prior quoted messages removed]'; otherwise it is the
\* converted text.
HideQuotedNoticeOnly ==
  (pc = "responded" /\ ~result.threw)
  => response.text = Kept(<<"[", "P", "r", "i", "o", "r", " ", "q", "u", "o", "t", "e", "d", " ", "m", "e", "s", "s", "a", "g", "e", "s", " ", "r", "e", "m", "o", "v", "e", "d", "]">>)

(***************************************************************************)
(* htmlToText called on documents made of tables, links, paragraphs,       *)
(* headings, quotes and rules                                              *)
(***************************************************************************)
MaxPieces == 2

\* a table of one row with one cell, one of a row of four cells and a row of
\* one, and one whose first cell is a From: line
OneCellTable == <<"<", "t", "a", "b", "l", "e", ">", "<", "t", "r", ">", "<", "t", "d", ">", "A", "<", "/", "t", "d", ">", "<", "/", "t", "r", ">", "<", "/", "t", "a", "b", "l", "e", ">">>

RaggedTable == <<"<", "t", "a", "b", "l", "e", ">", "<", "t", "r", ">", "<", "t", "d", ">", "A", "<", "/", "t", "d", ">", "<", "t", "d", ">", "B", "<", "/", "t", "d", ">", "<", "t", "d", ">", "C", "<", "/", "t", "d", ">", "<", "t", "d", ">", "D", "<", "/", "t", "d", ">", "<", "/", "t", "r", ">", "<", "t", "r", ">", "<", "t", "d", ">", "E", "<", "/", "t", "d", ">", "<", "/", "t", "r", ">", "<", "/", "t", "a", "b", "l", "e", ">">>

FromTable == <<"<", "t", "a", "b", "l", "e", ">", "<", "t", "r", ">", "<", "t", "d", ">", "F", "r", "o", "m", ":", " ", "x", "<", "/", "t", "d", ">", "<", "/", "t", "r", ">", "<", "t", "r", ">", "<", "t", "d", ">", "B", "<", "/", "t", "d", ">", "<", "/", "t", "r", ">", "<", "/", "t", "a", "b", "l", "e", ">">>

\* the tables, the cells of their widest row and their rows
Tables ==
  << [html |-> OneCellTable, cells |-> 1, rows |-> 1],
     [html |-> RaggedTable, cells |-> 4, rows |-> 2],
     [html |-> FromTable, cells |-> 1, rows |-> 2] >>

TableFragments == <<OneCellTable, RaggedTable, FromTable, <<"x">>>>

\* links: the URL, the content of the element and that content without its
\* tags, trimmed
Links ==
  << [url |-> <<"h", "t", "t", "p", ":", "/", "/", "x", ".", "c", "o", "m">>, content |-> <<"C", "l", "i", "c", "k">>, clean |-> <<"C", "l", "i", "c", "k">>],
     [url |-> <<"h", "t", "t", "p", ":", "/", "/", "x", ".", "c", "o", "m">>, content |-> <<"h", "t", "t", "p", ":", "/", "/", "x", ".", "c", "o", "m">>, clean |-> <<"h", "t", "t", "p", ":", "/", "/", "x", ".", "c", "o", "m">>],
     [url |-> <<"m", "a", "i", "l", "t", "o", ":", "a", "@", "b", ".", "c">>, content |-> <<" ", "<", "b", ">", "a", "@", "b", ".", "c", "<", "/", "b", ">">>, clean |-> <<"a", "@", "b", ".", "c">>],
     [url |-> <<"h", "t", "t", "p", ":", "/", "/", "x", ".", "c", "o", "m">>, content |-> <<"C", "l", "<", "b", "r", ">", "i", "c", "k">>, clean |-> <<"C", "l", "i", "c", "k">>] >>

\* <a href="URL">TEXT</a>
Anchor(link) == <<"<", "a", " ", "h", "r", "e", "f", "=", "\"">> \o link.url \o <<"\"", ">">> \o link.content \o <<"<", "/", "a", ">">>

LinkFragments == [i \in 1..Len(Links) |-> Anchor(Links[i])]

\* paragraphs of two and of three words
WrapFragments ==
  <<<<"<", "p", ">", "a", "a", "a", "a", "a", "a", "a", "a", "a", "a", " ", "b", "b", "b", "b", "b", "b", "b", "b", "b", "b", "<", "/", "p", ">">>, <<"<", "p", ">", "a", "a", "a", "a", "a", " ", "b", "b", "b", "b", "b", "<", "/", "p", ">">>, <<"<", "p", ">", "a", "a", "a", "a", " ", "b", "b", "b", "b", " ", "c", "c", "<", "/", "p", ">">>, <<"x", " ">>>>

\* texts with white space at the end of their lines, with and without tags
SpacedFragments == <<<<"<", "p", ">", "a", "\r", "\n", "b", "<", "/", "p", ">">>, <<"a", " ", "\n">>, <<"<", "b", ">", "c", "<", "/", "b", ">", "\t">>, <<" ", "d", "\r">>>>

\* headings without and with attributes: the level and the text
Headings ==
  << [html |-> <<"<", "h", "1", ">", "T", "<", "/", "h", "1", ">">>, level |-> 1, text |-> <<"T">>],
     [html |-> <<"<", "h", "2", " ", "c", "l", "a", "s", "s", "=", "'", "x", "'", ">", "U", "<", "/", "h", "2", ">">>, level |-> 2, text |-> <<"U">>],
     [html |-> <<"<", "h", "3", ">", "V", "<", "/", "h", "3", ">">>, level |-> 3, text |-> <<"V">>] >>

HeadingFragments == [i \in 1..Len(Headings) |-> Headings[i].html] \o <<<<"x">>>>

\* a quotation, rules with and without text after them, and text
BlockFragments == <<<<"<", "b", "l", "o", "c", "k", "q", "u", "o", "t", "e", ">", "q", "<", "/", "b", "l", "o", "c", "k", "q", "u", "o", "t", "e", ">">>, <<"a", "<", "h", "r", ">", "b">>, <<"<", "h", "r", ">">>, <<"a">>>>

\* documents with lists, converted with the indents set to 0
IndentFragments ==
  <<<<"x">>, <<"<", "u", "l", ">", "<", "l", "i", ">", "O", "n", "e", "<", "/", "l", "i", ">", "<", "l", "i", ">", "T", "w", "o", "<", "/", "l", "i", ">", "<", "/", "u", "l", ">">>, <<"<", "o", "l", ">", "<", "l", "i", ">", "A", "<", "/", "l", "i", ">", "<", "/", "o", "l", ">">>>>

\* the families of documents and the options they are converted with
RenderCases ==
  << [frags |-> TableFragments, opts |-> <<>>],
     [frags |-> LinkFragments, opts |-> <<>>],
     [frags |-> WrapFragments, opts |-> [wordwrap |-> JsNum(10)]],
     [frags |-> SpacedFragments, opts |-> <<>>],
     [frags |-> HeadingFragments, opts |-> [headingStyle |-> "hashify"]],
     [frags |-> BlockFragments, opts |-> <<>>],
     [frags |-> IndentFragments, opts |-> [bulletIndent |-> 0, listIndent |-> 0]] >>

InitRender ==
  /\ \E i \in 1..Len(RenderCases) :
       /\ html \in Texts(RenderCases[i].frags, MaxPieces, <<>>)
       /\ options = RenderCases[i].opts
  /\ text = <<>>
  /\ Idle

NextRender == Convert

SpecRender == InitRender /\ [][NextRender]_vars

(***************************************************************************)
(* Properties of the rendering (under SpecRender)                          *)
(***************************************************************************)
\* the lines of what htmlToText returned
ResultLines == Split(result.text, <<"\n">>)

\* the number of '|' in a line
Pipes(line) == Cardinality({i \in 1..Len(line) : line[i] = "|"})

\* the larger of two numbers
Max(a, b) == IF a > b THEN a ELSE b

\* C11: every row of a table is rendered as one line of N pipe-delimited
\* cells, N being the larger of 3 and the cell count of the widest row; rows
\* with fewer cells are padded with blank cells.
TableRectangular ==
  \A i \in 1..Len(Tables) :
    (pc = "converted" /\ html = Tables[i].html /\ ~result.threw)
    => /\ Len(ResultLines) = Tables[i].rows
       /\ \A k \in 1..Len(ResultLines) :
            /\ StartsWith(ResultLines[k], <<"|", " ">>)
            /\ Pipes(ResultLines[k]) = Max(MinCols, Tables[i].cells) + 1

\* C12: with preserveHrefLinks on, <a href="URL">TEXT</a> is rendered as
\* 'TEXT [URL]' when URL is neither the TEXT without its tags, trimmed, nor
\* 'mailto:' and that text, and as that text alone otherwise.
LinkRendered ==
  \A i \in 1..Len(Links) :
    (pc = "converted" /\ html = Anchor(Links[i]) /\ Settings.preserveHrefLinks)
    => result = Returned(IF \/ Links[i].url = Links[i].clean
                            \/ Links[i].url = <<"m", "a", "i", "l", "t", "o", ":">> \o Links[i].clean
                         THEN Links[i].clean
                         ELSE Links[i].clean \o <<" ", "[">> \o Links[i].url \o <<"]">>)

\* C13: with wordwrap a positive number w, every line of the output that
\* starts neither with '>' nor with '|' has at most w characters, unless it
\* is a single word.
WrapWidthBound ==
  (/\ pc = "converted"
   /\ ~result.threw
   /\ Settings.wordwrap.ty = "number"
   /\ Settings.wordwrap.n > 0)
  => \A k \in 1..Len(ResultLines) :
       \/ StartsWith(ResultLines[k], <<">">>)
       \/ StartsWith(ResultLines[k], <<"|">>)
       \/ Len(ResultLines[k]) <= Settings.wordwrap.n
       \/ ~Includes(ResultLines[k], <<" ">>)

\* no line of what htmlToText returned ends with a space, a tab or a
\* carriage return
LinesTrimmed ==
  \A k \in 1..Len(ResultLines) :
    \/ ResultLines[k] = <<>>
    \/ ResultLines[k][Len(ResultLines[k])] \notin {" ", "\t", "\r"}

\* C14 as amended: for every input that holds a '<', no line of the output
\* ends with a space, a tab or a carriage return; an input without '<' is
\* returned with the white space it has.
TrailingWhitespaceTrimmed ==
  (pc = "converted" /\ ~result.threw)
  => IF Includes(html, <<"<">>) THEN LinesTrimmed ELSE result.text = html

\* a paragraph with a carriage return before its line break has been
\* converted, and the carriage return is gone
TrailingWhitespaceWitness ==
  /\ pc = "converted"
  /\ html = <<"<", "p", ">", "a", "\r", "\n", "b", "<", "/", "p", ">">>
  /\ result = Returned(<<"a", "\n", "b">>)

\* C14: for every input, no line of the output ends with a space, a tab or a
\* carriage return.
NoTrailingWhitespace == (pc = "converted" /\ ~result.threw) => LinesTrimmed

\* s holds a '<' and a '>' somewhere after it
HoldsMarkup(s) ==
  \E i \in 1..Len(s) : \E j \in (i + 1)..Len(s) : s[i] = "<" /\ s[j] = ">"

\* C15 (under Spec): what htmlToText returns for an input that went through
\* the tag strip holds no '<' ... '>', whatever the later stages decode.
NoMarkupInOutput ==
  (pc # "start" /\ ~result.threw /\ Includes(html, <<"<">>)) => ~HoldsMarkup(result.text)

\* C17: with headingStyle 'hashify', an opening tag <hN>, with or without
\* attributes, is rendered as a line of N '#', a space and the text of the
\* heading.
HeadingsHashified ==
  \A i \in 1..Len(Headings) :
    (/\ pc = "converted"
     /\ html = Headings[i].html
     /\ Settings.headingStyle = "hashify"
     /\ ~result.threw)
    => \E k \in 1..Len(ResultLines) :
         ResultLines[k] = [n \in 1..Headings[i].level |-> "#"] \o <<" ">> \o Headings[i].text

\* C18: an opening <blockquote> is rendered as a new line that begins with
\* '> ', so the first line of the quoted content carries the marker.
BlockquoteMarked ==
  (pc = "converted" /\ ~result.threw /\ Includes(html, <<"<", "b", "l", "o", "c", "k", "q", "u", "o", "t", "e", ">", "q">>))
  => \E k \in 1..Len(ResultLines) : StartsWith(ResultLines[k], <<">", " ", "q">>)

\* the line that stands for <hr>
RuleLine == [n \in 1..28 |-> "-"]

\* C19: every <hr> is one line of 28 '-' in the output, whatever follows it,
\* and no other line stands for it.
HorizontalRuleLine ==
  (/\ pc = "converted"
   /\ ~result.threw
   /\ Includes(html, <<"<", "h", "r", ">">>)
   /\ ~Includes(html, <<"<", "b", "l", "o", "c", "k", "q", "u", "o", "t", "e", ">">>))
  => /\ Cardinality({k \in 1..Len(ResultLines) : ResultLines[k] = RuleLine})
          = Occurrences(html, <<"<", "h", "r", ">">>)
     /\ \A k \in 1..Len(ResultLines) :
          Includes(ResultLines[k], <<"-">>) => ResultLines[k] = RuleLine

MaxCalls == 2

\* the documents of the calls: a paragraph that a width of 10 wraps and a
\* heading that 'hashify' marks
CallFragments == <<<<"<", "p", ">", "a", "a", "a", "a", "a", "a", "a", "a", "a", "a", " ", "b", "b", "b", "b", "b", "b", "b", "b", "b", "b", "<", "/", "p", ">">>, <<"<", "h", "2", " ", "c", "l", "a", "s", "s", "=", "'", "x", "'", ">", "U", "<", "/", "h", "2", ">">>>>

CallOptionChoices ==
  << <<>>, [wordwrap |-> JsNum(10)], [headingStyle |-> "hashify"],
     [tables |-> FALSE], [bulletIndent |-> 4] >>

InitCalls ==
  /\ html = <<>>
  /\ options = <<>>
  /\ text = <<>>
  /\ Idle

\* a caller makes the arguments of its call ready
Prepare ==
  /\ pc \in {"start", "returned"}
  /\ calls < MaxCalls
  /\ html' \in Texts(CallFragments, MaxPieces, <<>>)
  /\ \E i \in 1..Len(CallOptionChoices) : options' = CallOptionChoices[i]
  /\ result' = Returned(<<>>)
  /\ pc' = "calling"
  /\ UNCHANGED <<again, text, marked, response, moduleDefaults, calls, mailVars>>

\* lines 135-305: the whole call; the function is synchronous, no other call
\* runs in between
Call ==
  /\ pc = "calling"
  /\ result' = htmlToTextFrom(moduleDefaults, html, options)
  /\ moduleDefaults' = SpreadDefaults(moduleDefaults, options)
  /\ calls' = calls + 1
  /\ pc' = "returned"
  /\ UNCHANGED <<html, options, again, text, marked, response, mailVars>>

NextCalls == Prepare \/ Call

SpecCalls == InitCalls /\ [][NextCalls]_vars

\* C16 (under SpecCalls): over any sequence of calls, a call leaves the
\* module-level defaultOptions and the caller's options as they were, and
\* what it returns is what the html and the options of that call give with
\* the defaults of the source, whatever the calls before it were.
CallsIndependent ==
  [][pc = "calling"
     => /\ moduleDefaults' = defaultOptions
        /\ options' = options
        /\ result' = htmlToText(html, options)]_vars

\* a second call, with the options omitted, has returned its paragraph on
\* one line, as the default width of 80 gives it
CallsIndependentWitness ==
  /\ pc = "returned"
  /\ calls = 2
  /\ options = <<>>
  /\ html = <<"<", "p", ">", "a", "a", "a", "a", "a", "a", "a", "a", "a", "a", " ", "b", "b", "b", "b", "b", "b", "b", "b", "b", "b", "<", "/", "p", ">">>
  /\ result = Returned(<<"a", "a", "a", "a", "a", "a", "a", "a", "a", "a", " ", "b", "b", "b", "b", "b", "b", "b", "b", "b", "b">>)

(***************************************************************************)
(* MailService.resolveFolderPath and the folder caches                     *)
(* (src/src/mailService.ts)                                                *)
(***************************************************************************)
\* String.prototype.toLowerCase
toLowerCase(s) == [k \in 1..Len(s) |-> Lower(s[k])]

\* new Map(), and Map.prototype.set
NewMap == <<>>

MapSet(map, key, value) ==
  [x \in (DOMAIN map) \cup {key} |-> IF x = key THEN value ELSE map[x]]

\* a cache that takes no entry
CacheKept(cache, user, key, value) == cache

\* cache.get(userEmail)!.set(key, value), the map of the user being there or
\* made first
CacheSet(cache, user, key, value) ==
  MapSet(cache, user,
         MapSet(IF user \in DOMAIN cache THEN cache[user] ELSE NewMap, key, value))

\* the folders of a mailbox below a parent
FoldersBelow(user, parent) ==
  LET Below(f) == f.parentFolderId = parent
  IN  SelectSeq(Mailboxes[user], Below)

\* lines 261-283: GET /users/{userEmail}/mailFolders
getMailFolders(user) == FoldersBelow(user, <<>>)

\* lines 291-318: GET /users/{userEmail}/mailFolders/{id}/childFolders, for
\* an ID (which resolveFolderPath gives back as it is)
getChildFolders(id, user) == FoldersBelow(user, id)

\* folders.find(f => f.displayName === part): the place of the first folder
\* with exactly that name, 0 for undefined
findExact(folders, part) ==
  LET found == {k \in 1..Len(folders) : folders[k].displayName = part}
  IN  IF found = {} THEN 0 ELSE CHOOSE k \in found : \A j \in found : k <= j

\* line 161, folders.find(f => f.displayName.toLowerCase() === part): the
\* place of the first folder with that name in lower case, 0 for undefined
find(folders, part) ==
  LET found == {k \in 1..Len(folders) : toLowerCase(folders[k].displayName) = part}
  IN  IF found = {} THEN 0 ELSE CHOOSE k \in found : \A j \in found : k <= j

\* lines 156-174: the loop over the parts of the path from part i on; the
\* listing of the top level and the listings of i - 1 folders have been
\* requested when part i is looked for
RECURSIVE ResolveParts(_, _, _, _, _, _)
ResolveParts(parts, i, folders, currentPath, user, cache) ==
  LET here == currentPath \o <<"/">> \o parts[i]
      k == find(folders, toLowerCase(parts[i]))
  IN  IF k = 0
      THEN [out |-> Thrown(<<"F", "o", "l", "d", "e", "r", " ", "n", "o", "t", " ", "f", "o", "u", "n", "d", ":", " ">> \o here), cache |-> cache, from |-> "failed", requests |-> i]
      ELSE IF i < Len(parts)
      THEN ResolveParts(parts, i + 1, getChildFolders(folders[k].id, user), here, user,
                        CacheSet(cache, user, toLowerCase(here), folders[k].id))
      ELSE [out |-> Returned(folders[k].id),
            cache |-> CacheSet(cache, user, toLowerCase(here), folders[k].id),
            from |-> "listed", requests |-> i]

\* lines 129 and 134-136: the path without one '/' at its end, and the cache
\* with a map for the user
NormalizedPath(folderPathOrId) ==
  IF folderPathOrId[Len(folderPathOrId)] = "/"
  THEN SubSeq(folderPathOrId, 1, Len(folderPathOrId) - 1)
  ELSE folderPathOrId

WithUser(cache, user) ==
  IF user \in DOMAIN cache THEN cache ELSE MapSet(cache, user, NewMap)

\* lines 138-180: the lookup in the cache and the walk through the listing
ResolveNormalized(normalizedPath, user, cache) ==
  LET NotEmpty(p) == Len(p) > 0
      key == toLowerCase(normalizedPath)
  IN  IF key \in DOMAIN cache[user]
      THEN [out |-> Returned(cache[user][key]), cache |-> cache, from |-> "cached", requests |-> 0]
      ELSE IF normalizedPath = <<"/">>
      THEN [out |-> Thrown(<<"R", "o", "o", "t", " ", "f", "o", "l", "d", "e", "r", " ", "d", "o", "e", "s", " ", "n", "o", "t", " ", "h", "a", "v", "e", " ", "a", "n", " ", "I", "D", ".", " ", "P", "l", "e", "a", "s", "e", " ", "s", "p", "e", "c", "i", "f", "y", " ", "a", " ", "s", "p", "e", "c", "i", "f", "i", "c", " ", "f", "o", "l", "d", "e", "r", ".">>),
            cache |-> cache, from |-> "failed", requests |-> 0]
      ELSE IF SelectSeq(Split(normalizedPath, <<"/">>), NotEmpty) = <<>>
      THEN [out |-> Thrown(<<"C", "o", "u", "l", "d", " ", "n", "o", "t", " ", "r", "e", "s", "o", "l", "v", "e", " ", "f", "o", "l", "d", "e", "r", " ", "p", "a", "t", "h", ":", " ">> \o normalizedPath),
            cache |-> cache, from |-> "failed", requests |-> 0]
      ELSE ResolveParts(SelectSeq(Split(normalizedPath, <<"/">>), NotEmpty), 1,
                        getMailFolders(user), <<>>, user, cache)

\* the call without lines 124-126
resolveAsPath(folderPathOrId, user, cache) ==
  ResolveNormalized(NormalizedPath(folderPathOrId), user, WithUser(cache, user))

\* lines 122-181: what the call returns or throws, the cache after it, where
\* the answer came from, and the requests sent to Graph
resolveFolderPath(folderPathOrId, user, cache) ==
  IF ~StartsWith(folderPathOrId, <<"/">>)
  THEN [out |-> Returned(folderPathOrId), cache |-> cache, from |-> "given", requests |-> 0]
  ELSE ResolveNormalized(NormalizedPath(folderPathOrId), user, WithUser(cache, user))

\* lines 210-230: the folder and the folders below it entered into both
\* caches; caches.id is folderIdCache and caches.path is folderPathCache
RECURSIVE processFolderAndChildren(_, _, _, _)
RECURSIVE ProcessFolders(_, _, _, _, _)
processFolderAndChildren(folder, currentPath, user, caches) ==
  ProcessFolders(getChildFolders(folder.id, user), 1, currentPath, user,
                 [id |-> CacheSet(caches.id, user, folder.id, currentPath),
                  path |-> CacheSet(caches.path, user, toLowerCase(currentPath), folder.id)])

\* the loops of lines 197-199 and 226-228 from folder k on
ProcessFolders(folders, k, parentPath, user, caches) ==
  IF k > Len(folders) THEN caches
  ELSE ProcessFolders(folders, k + 1, parentPath, user,
                      processFolderAndChildren(folders[k],
                                               parentPath \o <<"/">> \o folders[k].displayName,
                                               user, caches))

\* lines 188-202
buildFolderPathMap(user, caches) ==
  ProcessFolders(getMailFolders(user), 1, <<>>, user,
                 [id |-> WithUser(caches.id, user), path |-> caches.path])

\* the arguments that callers pass for a folder: paths in several spellings,
\* paths of no folder, the root, an ID and a well-known name
FolderArguments ==
  <<<<"/", "I", "n", "b", "o", "x">>, <<"/", "i", "n", "b", "o", "x", "/">>, <<"/", "I", "N", "B", "O", "X">>, <<"/", "I", "n", "b", "o", "x", "/", "S", "u", "b">>, <<"/", "I", "N", "B", "O", "X", "/", "s", "u", "b", "/">>, <<"/", "i", "n", "b", "o", "x", "/", "/", "s", "u", "b">>, <<"/", "A", "r", "c", "h", "i", "v", "e", "/", "s", "u", "b">>,
    <<"/", "a", "r", "c", "h", "i", "v", "e", "/", "S", "U", "B", "/">>, <<"/", "S", "u", "b">>, <<"/", "I", "n", "b", "o", "x", "/", "A", "r", "c", "h", "i", "v", "e">>, <<"/">>, <<"/", "/">>, <<"I", "2">>, <<"i", "n", "b", "o", "x">>>>

\* what a caller knows after a call: the path it gave, without a '/' at its
\* end and in lower case, and the ID it got for it
Resolution(folderPathOrId, user, out) ==
  IF StartsWith(folderPathOrId, <<"/">>) /\ ~out.threw
  THEN {[user |-> user, path |-> toLowerCase(NormalizedPath(folderPathOrId)), id |-> out.text]}
  ELSE {}

InitMail ==
  /\ html = <<>>
  /\ options = <<>>
  /\ text = <<>>
  /\ Idle

\* lines 122-181: a whole call of resolveFolderPath; the mailbox does not
\* change while it runs and Graph answers every request of the call
ResolveFolderPath ==
  \E k \in 1..Len(FolderArguments) : \E user \in DOMAIN Mailboxes :
    /\ path' = FolderArguments[k]
    /\ userEmail' = user
    /\ folderId' = resolveFolderPath(FolderArguments[k], user, folderPathCache).out
    /\ folderPathCache' = resolveFolderPath(FolderArguments[k], user, folderPathCache).cache
    /\ pc' = resolveFolderPath(FolderArguments[k], user, folderPathCache).from
    /\ requests' = resolveFolderPath(FolderArguments[k], user, folderPathCache).requests
    /\ resolved' = resolved \cup Resolution(FolderArguments[k], user,
                                            resolveFolderPath(FolderArguments[k], user, folderPathCache).out)
    /\ UNCHANGED <<folderIdCache, listVars, asyncVars, textVars>>

\* lines 188-202: a whole call of buildFolderPathMap
BuildFolderPathMap ==
  \E user \in DOMAIN Mailboxes :
    /\ folderIdCache' = buildFolderPathMap(user, [id |-> folderIdCache, path |-> folderPathCache]).id
    /\ folderPathCache' = buildFolderPathMap(user, [id |-> folderIdCache, path |-> folderPathCache]).path
    /\ pc' = "built"
    /\ UNCHANGED <<path, userEmail, folderId, requests, resolved, listVars, asyncVars, textVars>>

NextMail == ResolveFolderPath \/ BuildFolderPathMap

SpecMail == InitMail /\ [][NextMail]_vars

(***************************************************************************)
(* Properties of resolveFolderPath (under SpecMail)                        *)
(***************************************************************************)
\* the path of a folder of a mailbox, from the names of its ancestors
RECURSIVE PathOf(_, _)
PathOf(user, folder) ==
  LET above == {k \in 1..Len(Mailboxes[user]) : Mailboxes[user][k].id = folder.parentFolderId}
  IN  (IF above = {} THEN <<>> ELSE PathOf(user, Mailboxes[user][CHOOSE k \in above : TRUE]))
      \o <<"/">> \o folder.displayName

\* the folders that a path names when letter case and one '/' at its end
\* are left aside
Named(user, p) ==
  {k \in 1..Len(Mailboxes[user]) :
     toLowerCase(PathOf(user, Mailboxes[user][k])) = toLowerCase(NormalizedPath(p))}

\* C20: for a fixed mailbox and user, resolveFolderPath returns for every
\* path that names a folder up to letter case and a '/' at its end the ID of
\* that folder, so the same ID for any two such spellings, whether the
\* answer comes from the listing or from the cache.
PathsCaseInsensitive ==
  (pc \in {"cached", "listed", "failed"})
  => \A k \in Named(userEmail, path) : folderId = Returned(Mailboxes[userEmail][k].id)

\* a path in another spelling than the one resolved before has been answered
\* from the cache with the ID of the folder
PathsCaseInsensitiveWitness ==
  /\ pc = "cached"
  /\ userEmail = <<"u", "1">>
  /\ path = <<"/", "I", "N", "B", "O", "X", "/", "s", "u", "b", "/">>
  /\ folderId = Returned(<<"I", "2">>)
  /\ folderIdCache = <<>>

\* a step that is a call of resolveFolderPath
Resolves == pc' \in {"given", "cached", "listed", "failed"}

\* C21: when the argument of resolveFolderPath does not start with '/', the
\* call returns the argument as it is, sends no request to Graph and leaves
\* folderPathCache and folderIdCache as they were.
IdPassesThrough ==
  [][(Resolves /\ ~StartsWith(path', <<"/">>))
     => /\ folderId' = Returned(path')
        /\ requests' = 0
        /\ folderPathCache' = folderPathCache
        /\ folderIdCache' = folderIdCache]_vars

\* an ID has been given by a user who has no map in the cache, and has been
\* given back
IdPassesThroughWitness ==
  /\ pc = "given"
  /\ path = <<"I", "2">>
  /\ userEmail = <<"u", "2">>
  /\ folderId = Returned(<<"I", "2">>)
  /\ <<"u", "1">> \in DOMAIN folderPathCache
  /\ <<"u", "2">> \notin DOMAIN folderPathCache

\* a path /A/B/.../Z: every part between its slashes is a name; one '/' may
\* follow it
IsFolderPath(p) ==
  LET parts == Split(NormalizedPath(p), <<"/">>)
  IN  /\ StartsWith(p, <<"/">>)
      /\ Len(parts) > 1
      /\ \A k \in 2..Len(parts) : Len(parts[k]) > 0

\* p is q or a path that q continues with '/' and further names
IsPrefixPath(p, q) ==
  \/ p = q
  \/ /\ Len(p) < Len(q)
     /\ SubSeq(q, 1, Len(p)) = p
     /\ q[Len(p) + 1] = "/"

\* C24: once resolveFolderPath has resolved a path for a user, and the
\* folders have not changed since, a call for that path or for one of its
\* prefixes /A, /A/B, ..., in any letter case, sends no request to Graph and
\* returns the ID of the folder: the ID returned before when the path is the
\* same.
PathCacheHit ==
  [][(Resolves /\ IsFolderPath(path'))
     => \A h \in resolved :
          (h.user = userEmail' /\ IsPrefixPath(toLowerCase(NormalizedPath(path')), h.path))
          => /\ requests' = 0
             /\ ~folderId'.threw
             /\ toLowerCase(NormalizedPath(path')) = h.path => folderId'.text = h.id
             /\ \A k \in Named(userEmail', path') :
                  folderId'.text = Mailboxes[userEmail'][k].id]_vars

\* /Inbox/Sub has been resolved and nothing else, and then its prefix /INBOX
\* has been answered from the cache
PathCacheHitWitness ==
  /\ pc = "cached"
  /\ userEmail = <<"u", "1">>
  /\ path = <<"/", "I", "N", "B", "O", "X">>
  /\ requests = 0
  /\ folderId = Returned(<<"I", "1">>)
  /\ resolved = {[user |-> <<"u", "1">>, path |-> <<"/", "i", "n", "b", "o", "x", "/", "s", "u", "b">>, id |-> <<"I", "2">>], [user |-> <<"u", "1">>, path |-> <<"/", "i", "n", "b", "o", "x">>, id |-> <<"I", "1">>]}
  /\ folderIdCache = <<>>

(***************************************************************************)
(* Properties of markQuotedEmails as a whole (under SpecMark)              *)
(***************************************************************************)
\* the lines of a text that are neither a separator nor blank
LinesKept(t) ==
  LET Stays(line) == line # <<"-", "-", "-">> /\ \E k \in 1..Len(line) : line[k] \notin WhiteSpace
  IN  SelectSeq(Split(t, <<"\n">>), Stays)

\* C25: the lines of the output of markQuotedEmails that are neither '---'
\* nor blank are the lines of its input that are neither '---' nor blank, in
\* the same order: none is dropped, merged, split or altered.
OnlySeparatorsChange ==
  (pc = "marked" /\ ~marked.threw) => LinesKept(marked.text) = LinesKept(text)

(***************************************************************************)
(* processTables called on a table                                         *)
(***************************************************************************)
MaxTableParts == 3

\* what stands between <table> and </table>: sections and rows, each with
\* the rows of cells it holds
TableParts ==
  << [html |-> <<"<", "t", "h", "e", "a", "d", ">", "<", "t", "r", ">", "<", "t", "h", ">", "H", "<", "/", "t", "h", ">", "<", "/", "t", "r", ">", "<", "/", "t", "h", "e", "a", "d", ">">>, section |-> "thead", rows |-> <<<<<<"H">>>>>>],
     [html |-> <<"<", "t", "b", "o", "d", "y", ">", "<", "t", "r", ">", "<", "t", "d", ">", "B", "<", "/", "t", "d", ">", "<", "t", "d", ">", "C", "<", "/", "t", "d", ">", "<", "/", "t", "r", ">", "<", "/", "t", "b", "o", "d", "y", ">">>, section |-> "tbody", rows |-> <<<<<<"B">>, <<"C">>>>>>],
     [html |-> <<"<", "t", "r", ">", "<", "t", "d", ">", "D", "<", "/", "t", "d", ">", "<", "/", "t", "r", ">">>, section |-> "none", rows |-> <<<<<<"D">>>>>>],
     [html |-> <<"<", "t", "r", ">", "<", "/", "t", "r", ">">>, section |-> "none", rows |-> <<<<>>>>],
     [html |-> <<"<", "t", "h", "e", "a", "d", ">", "<", "/", "t", "h", "e", "a", "d", ">">>, section |-> "thead", rows |-> <<>>] >>

\* the choices of at most n parts, by their places in TableParts
RECURSIVE PartChoices(_)
PartChoices(n) ==
  IF n = 0 THEN {<<>>}
  ELSE PartChoices(n - 1)
       \cup {Append(c, i) : c \in PartChoices(n - 1), i \in 1..Len(TableParts)}

\* the table made of the chosen parts
TableOf(choice) ==
  <<"<", "t", "a", "b", "l", "e", ">">> \o ConcatAll([k \in 1..Len(choice) |-> TableParts[choice[k]].html], 1, Len(choice))
  \o <<"<", "/", "t", "a", "b", "l", "e", ">">>

InitTables ==
  /\ \E choice \in PartChoices(MaxTableParts) \ {<<>>} : html = TableOf(choice)
  /\ options = <<>>
  /\ text = <<>>
  /\ Idle

\* lines 336-399: a call of processTables
ProcessTables ==
  /\ pc = "start"
  /\ result' = Returned(processTables(html))
  /\ pc' = "tabulated"
  /\ UNCHANGED <<html, options, again, text, marked, response, moduleDefaults, calls, mailVars>>

NextTables == ProcessTables

SpecTables == InitTables /\ [][NextTables]_vars

(***************************************************************************)
(* Properties of processTables (under SpecTables)                          *)
(***************************************************************************)
\* the rows with a cell of the chosen parts, in the order of the source
RECURSIVE RowsIn(_, _)
RowsIn(choice, k) ==
  IF k > Len(choice) THEN <<>>
  ELSE SelectSeq(TableParts[choice[k]].rows, LAMBDA row : Len(row) > 0)
       \o RowsIn(choice, k + 1)

\* the rows with a cell of the first part of a kind, none when there is no
\* such part
FirstSectionRows(choice, section) ==
  LET places == {k \in 1..Len(choice) : TableParts[choice[k]].section = section}
  IN  IF places = {} THEN <<>>
      ELSE RowsIn(<<choice[CHOOSE k \in places : \A j \in places : k <= j]>>, 1)

\* the lines of the output that are rows of a table
RowLines == SelectSeq(ResultLines, LAMBDA line : StartsWith(line, <<"|">>))

\* the row lines are those of the given rows, in their order
Renders(rows) ==
  /\ Len(RowLines) = Len(rows)
  /\ \A k \in 1..Len(rows) : StartsWith(RowLines[k], <<"|", " ">> \o rows[k][1] \o <<" ", "|">>)

\* C26 as stated: every <tr> of a table that holds a cell gives one row line,
\* in the order of the source, also a row placed directly under <table>
\* when the table has a <thead> or <tbody>.
EveryRowRendered ==
  (pc = "tabulated")
  => \A choice \in PartChoices(MaxTableParts) :
       html = TableOf(choice) => Renders(RowsIn(choice, 1))

\* C26, amended: processTables gives one row line for every <tr> with a cell
\* of the first <thead> and then of the first <tbody> of the table; only when
\* these hold no such row, it gives one row line for every <tr> with a cell
\* anywhere in the table, in the order of the source.
SectionRowsRendered ==
  (pc = "tabulated")
  => \A choice \in PartChoices(MaxTableParts) :
       html = TableOf(choice)
       => LET sectionRows == FirstSectionRows(choice, "thead") \o FirstSectionRows(choice, "tbody")
          IN  Renders(IF sectionRows = <<>> THEN RowsIn(choice, 1) ELSE sectionRows)

\* a table with a head and a row directly under <table> has been rendered:
\* the row of the head is there, the other row is not
SectionRowsWitness ==
  /\ pc = "tabulated"
  /\ html = <<"<", "t", "a", "b", "l", "e", ">", "<", "t", "h", "e", "a", "d", ">", "<", "t", "r", ">", "<", "t", "h", ">", "H", "<", "/", "t", "h", ">", "<", "/", "t", "r", ">", "<", "/", "t", "h", "e", "a", "d", ">", "<", "t", "r", ">", "<", "t", "d", ">", "D", "<", "/", "t", "d", ">", "<", "/", "t", "r", ">", "<", "/", "t", "a", "b", "l", "e", ">">>
  /\ RowLines = << <<"|", " ", "H", " ", "|", " ", " ", "|", " ", " ", "|">> >>

(***************************************************************************)
(* applyWordWrap called on a line                                          *)
(***************************************************************************)
MaxWords == 3

\* what a line is made of: words shorter and longer than the width, a word
\* after two more spaces, a word before a tab, and the marks of quotes and
\* of table rows
WrapPieces == <<<<"a", "a", "a", "a">>, <<"b", "b", "b", "b", "b", "b", "b", "b", "b", "b", "b", "b">>, <<"c", "c">>, <<" ", " ", "d", "d">>, <<"e", "e", "\t">>, <<">">>, <<"|">>>>

\* the widths above the least width
WrapWidths == {10, 14}

InitWrap ==
  /\ text \in Texts(WrapPieces, MaxWords, <<" ">>) \ {<<>>}
  /\ \E w \in WrapWidths : options = [wordwrap |-> JsNum(w)]
  /\ html = <<>>
  /\ Idle

\* lines 455-515: a call of applyWordWrap
ApplyWordWrap ==
  /\ pc = "start"
  /\ result' = Returned(applyWordWrap(text, options.wordwrap.n))
  /\ pc' = "wrapped"
  /\ UNCHANGED <<html, options, again, text, marked, response, moduleDefaults, calls, mailVars>>

NextWrap == ApplyWordWrap

SpecWrap == InitWrap /\ [][NextWrap]_vars

(***************************************************************************)
(* Properties of applyWordWrap (under SpecWrap)                            *)
(***************************************************************************)
\* the words of a line from character k on, after the characters of the
\* word that is being read
RECURSIVE WordsFrom(_, _, _)
WordsFrom(line, k, word) ==
  IF k > Len(line) THEN (IF word = <<>> THEN <<>> ELSE <<word>>)
  ELSE IF line[k] \in WhiteSpace
  THEN (IF word = <<>> THEN <<>> ELSE <<word>>) \o WordsFrom(line, k + 1, <<>>)
  ELSE WordsFrom(line, k + 1, Append(word, line[k]))

\* the words of the lines from line k on
RECURSIVE WordsOfLines(_, _)
WordsOfLines(lines, k) ==
  IF k > Len(lines) THEN <<>>
  ELSE WordsFrom(lines[k], 1, <<>>) \o WordsOfLines(lines, k + 1)

\* the white space that a line begins with
LeadingSpace(line) ==
  SubSeq(line, 1, Cardinality({k \in 1..Len(line) : \A j \in 1..k : line[j] \in WhiteSpace}))

\* C27: the words of the lines that applyWordWrap emits for a line, at a
\* width of 10 or more, are the words of the line, in order and whole, and
\* every line after the first begins with the indentation of the line.
WordsPreserved ==
  (pc = "wrapped")
  => /\ WordsOfLines(ResultLines, 1) = WordsFrom(text, 1, <<>>)
     /\ \A k \in 2..Len(ResultLines) : StartsWith(ResultLines[k], LeadingSpace(text))

\* an indented line has been wrapped into three lines, the long word alone
\* on the second
WordsPreservedWitness ==
  /\ pc = "wrapped"
  /\ options = [wordwrap |-> JsNum(14)]
  /\ text = <<" ", " ", "d", "d", " ", "b", "b", "b", "b", "b", "b", "b", "b", "b", "b", "b", "b", " ", "c", "c">>
  /\ ResultLines = <<<<" ", " ", "d", "d">>, <<" ", " ", "b", "b", "b", "b", "b", "b", "b", "b", "b", "b", "b", "b">>, <<" ", " ", "c", "c">>>>

(***************************************************************************)
(* MailService.listEmails and its date filters (src/src/mailService.ts)    *)
(* Dates are days of the calendar, in UTC, at midnight.                    *)
(***************************************************************************)
MaxLists == 2

\* the days of a month of the calendar (months count from 0)
DaysInMonth(year, month) ==
  IF month = 1
  THEN (IF (year % 4 = 0 /\ year % 100 # 0) \/ year % 400 = 0 THEN 29 ELSE 28)
  ELSE IF month \in {3, 5, 8, 10} THEN 30 ELSE 31

\* the day that a year, a month and a day of the month stand for when the
\* month or the day is out of its range (MakeDay of the Date object)
RECURSIVE MakeDay(_, _, _)
MakeDay(year, month, date) ==
  IF month < 0 THEN MakeDay(year - 1, month + 12, date)
  ELSE IF month > 11 THEN MakeDay(year + 1, month - 12, date)
  ELSE IF date < 1
  THEN (IF month = 0 THEN MakeDay(year - 1, 11, date + 31)
        ELSE MakeDay(year, month - 1, date + DaysInMonth(year, month - 1)))
  ELSE IF date > DaysInMonth(year, month)
  THEN MakeDay(year, month + 1, date - DaysInMonth(year, month))
  ELSE [year |-> year, month |-> month, date |-> date]

\* Date.prototype.setDate, setMonth and setFullYear
setDate(day, date) == MakeDay(day.year, day.month, date)

setMonth(day, month) == MakeDay(day.year, month, day.date)

setFullYear(day, year) == MakeDay(year, day.month, day.date)

\* Date.prototype.toISOString
toISOString(day) ==
  LET TwoDigits(n) == (IF n < 10 THEN <<"0">> ELSE <<>>) \o NumToString(n)
  IN  NumToString(day.year) \o <<"-">> \o TwoDigits(day.month + 1) \o <<"-">> \o TwoDigits(day.date)
      \o <<"T", "0", "0", ":", "0", "0", ":", "0", "0", ".", "0", "0", "0", "Z">>

\* lines 351-369: the day that lies the period before today
PastDate(today, previousPeriod) ==
  CASE previousPeriod.unit = "days" -> setDate(today, today.date - previousPeriod.value)
    [] previousPeriod.unit = "weeks" -> setDate(today, today.date - previousPeriod.value * 7)
    [] previousPeriod.unit = "months" -> setMonth(today, today.month - previousPeriod.value)
    [] previousPeriod.unit = "years" -> setFullYear(today, today.year - previousPeriod.value)

\* lines 351-372: the dateFilters object after the previous period has been
\* processed
WithPastDate(object, today) ==
  IF "previousPeriod" \in DOMAIN object
  THEN MapSet(object, "afterDate", PastDate(today, object.previousPeriod))
  ELSE object

\* lines 375-385: the filter of the dates of the object
FilterOf(object) ==
  LET after == IF "afterDate" \in DOMAIN object
               THEN <<"r", "e", "c", "e", "i", "v", "e", "d", "D", "a", "t", "e", "T", "i", "m", "e", " ", "g", "e", " ">> \o toISOString(object.afterDate) ELSE <<>>
  IN  IF "beforeDate" \in DOMAIN object
      THEN after \o (IF after # <<>> THEN <<" ", "a", "n", "d", " ">> ELSE <<>>)
           \o <<"r", "e", "c", "e", "i", "v", "e", "d", "D", "a", "t", "e", "T", "i", "m", "e", " ", "l", "e", " ">> \o toISOString(object.beforeDate)
      ELSE after

\* the dateFilters objects that callers make
DateFilterChoices ==
  LET after == [year |-> 2024, month |-> 2, date |-> 1]
      before == [year |-> 2024, month |-> 2, date |-> 20]
  IN  { [given |-> FALSE, object |-> <<>>],
        [given |-> TRUE, object |-> <<>>],
        [given |-> TRUE, object |-> [afterDate |-> after]],
        [given |-> TRUE, object |-> [beforeDate |-> before]],
        [given |-> TRUE, object |-> [afterDate |-> after, beforeDate |-> before]],
        [given |-> TRUE, object |-> [previousPeriod |-> [value |-> 7, unit |-> "days"]]],
        [given |-> TRUE, object |-> [previousPeriod |-> [value |-> 2, unit |-> "weeks"]]],
        [given |-> TRUE, object |-> [previousPeriod |-> [value |-> 1, unit |-> "months"]]],
        [given |-> TRUE, object |-> [previousPeriod |-> [value |-> 1, unit |-> "years"]]],
        [given |-> TRUE, object |-> [previousPeriod |-> [value |-> 1, unit |-> "months"], beforeDate |-> before]],
        [given |-> TRUE, object |-> [afterDate |-> after, previousPeriod |-> [value |-> 7, unit |-> "days"]]] }

\* the days on which listEmails is called
Today == { [year |-> 2024, month |-> 2, date |-> 31], [year |-> 2024, month |-> 1, date |-> 29],
           [year |-> 2024, month |-> 0, date |-> 5] }

\* the folders that listEmails is called for
ListedFolders == { <<"/", "I", "n", "b", "o", "x">>, <<"I", "2">>, <<"/", "N", "o", "p", "e">> }

InitList ==
  /\ html = <<>>
  /\ options = <<>>
  /\ text = <<>>
  /\ Idle

\* lines 326-403: a call of listEmails by a caller that has made a
\* dateFilters object for it; the folder is resolved first, and Graph
\* answers the request for the messages or fails
ListEmails ==
  \E folder \in ListedFolders : \E filters \in DateFilterChoices : \E today \in Today :
    \E answered \in BOOLEAN :
      LET resolution == resolveFolderPath(folder, <<"u", "1">>, folderPathCache)
          object == WithPastDate(filters.object, today)
      IN  /\ calls < MaxLists
          /\ calls' = calls + 1
          /\ path' = folder
          /\ userEmail' = <<"u", "1">>
          /\ now' = today
          /\ passed' = filters
          /\ folderId' = resolution.out
          /\ folderPathCache' = resolution.cache
          /\ requests' = resolution.requests
          /\ IF resolution.out.threw
             THEN /\ dateFilters' = filters
                  /\ filterString' = <<>>
                  /\ pc' = "failed"
             ELSE /\ dateFilters' = [given |-> filters.given, object |-> object]
                  /\ filterString' = FilterOf(object)
                  /\ pc' = IF answered THEN "emails" ELSE "failed"
          /\ UNCHANGED <<folderIdCache, resolved, asyncVars,
                         html, options, result, again, text, marked, response, moduleDefaults>>

NextList == ListEmails

SpecList == InitList /\ [][NextList]_vars

(***************************************************************************)
(* Properties of listEmails (under SpecList)                               *)
(***************************************************************************)
\* C30: after a call of listEmails the caller's dateFilters object has the
\* afterDate, beforeDate and previousPeriod it had before the call, and when
\* it has both an afterDate and a previousPeriod, the afterDate is applied
\* in the filter that is sent.
ArgumentsUnchanged ==
  (pc \in {"emails", "failed"})
  => /\ dateFilters = passed
     /\ (/\ ~folderId.threw
         /\ "afterDate" \in DOMAIN passed.object
         /\ "previousPeriod" \in DOMAIN passed.object)
        => Includes(filterString, <<"r", "e", "c", "e", "i", "v", "e", "d", "D", "a", "t", "e", "T", "i", "m", "e", " ", "g", "e", " ">> \o toISOString(passed.object.afterDate))

(***************************************************************************)
(* Calls on one MailService instance that run between each other's awaits  *)
(* (src/src/mailService.ts).  A call runs from one await to the next in    *)
(* one step; Graph reads or changes the folders when it gets the request,  *)
(* and the call goes on with the answer at some later step.                *)
(***************************************************************************)
MaxStarted == 2

\* Map.prototype.delete, after a map that keeps the key
MapKept(map, key) == map

MapDelete(map, key) == [x \in (DOMAIN map) \ {key} |-> map[x]]

\* what Graph lists below a parent, with the childFolderCount of each folder
ListFolders(box, parent) ==
  LET Below(f) == f.parentFolderId = parent
      listed == SelectSeq(box, Below)
  IN  [k \in 1..Len(listed) |->
         [id |-> listed[k].id, displayName |-> listed[k].displayName,
          parentFolderId |-> listed[k].parentFolderId,
          childFolderCount |->
            Cardinality({j \in 1..Len(box) : box[j].parentFolderId = listed[k].id})]]

\* get(userEmail)!.set(...) when the user has no map: get gives undefined
SetOfUndefined == Thrown(<<"T", "y", "p", "e", "E", "r", "r", "o", "r", ":", " ", "C", "a", "n", "n", "o", "t", " ", "r", "e", "a", "d", " ", "p", "r", "o", "p", "e", "r", "t", "i", "e", "s", " ", "o", "f", " ", "u", "n", "d", "e", "f", "i", "n", "e", "d", " ", "(", "r", "e", "a", "d", "i", "n", "g", " ", "'", "s", "e", "t", "'", ")">>)

\* a call that has returned or thrown
Done(call, out) == [kind |-> call.kind, user |-> call.user, at |-> "done", out |-> out]

\* lines 122-151 of resolveFolderPath, up to its first await: the call as it
\* stands then, and folderPathCache
ResolveUntilAwait(folderPathOrId, user, cache, box) ==
  LET call == [kind |-> "resolve", user |-> user]
      NotEmpty(p) == Len(p) > 0
      normalizedPath == NormalizedPath(folderPathOrId)
      withUser == WithUser(cache, user)
  IN  IF ~StartsWith(folderPathOrId, <<"/">>)
      THEN [call |-> Done(call, Returned(folderPathOrId)), cache |-> cache]
      ELSE IF toLowerCase(normalizedPath) \in DOMAIN withUser[user]
      THEN [call |-> Done(call, Returned(withUser[user][toLowerCase(normalizedPath)])),
            cache |-> withUser]
      ELSE IF normalizedPath = <<"/">>
      THEN [call |-> Done(call, ResolveNormalized(normalizedPath, user, withUser).out),
            cache |-> withUser]
      ELSE [call |-> [kind |-> "resolve", user |-> user, at |-> "awaiting",
                      normalizedPath |-> normalizedPath,
                      parts |-> SelectSeq(Split(normalizedPath, <<"/">>), NotEmpty), i |-> 1,
                      currentPath |-> <<>>, listing |-> ListFolders(box, <<>>)],
            cache |-> withUser]

\* lines 156-180: one round of the loop, from the answer of Graph to the
\* next await or to the end of the call
ResolveAfterAwait(call, cache, box) ==
  LET here == call.currentPath \o <<"/">> \o call.parts[call.i]
      k == find(call.listing, toLowerCase(call.parts[call.i]))
  IN  IF call.parts = <<>>
      THEN [call |-> Done(call, Thrown(<<"C", "o", "u", "l", "d", " ", "n", "o", "t", " ", "r", "e", "s", "o", "l", "v", "e", " ", "f", "o", "l", "d", "e", "r", " ", "p", "a", "t", "h", ":", " ">> \o call.normalizedPath)),
            cache |-> cache]
      ELSE IF k = 0
      THEN [call |-> Done(call, Thrown(<<"F", "o", "l", "d", "e", "r", " ", "n", "o", "t", " ", "f", "o", "u", "n", "d", ":", " ">> \o here)), cache |-> cache]
      ELSE IF call.user \notin DOMAIN cache
      THEN [call |-> Done(call, SetOfUndefined), cache |-> cache]
      ELSE IF call.i < Len(call.parts)
      THEN [call |-> [call EXCEPT !.i = call.i + 1, !.currentPath = here,
                                  !.listing = ListFolders(box, call.listing[k].id)],
            cache |-> CacheSet(cache, call.user, toLowerCase(here), call.listing[k].id)]
      ELSE [call |-> Done(call, Returned(call.listing[k].id)),
            cache |-> CacheSet(cache, call.user, toLowerCase(here), call.listing[k].id)]

\* lines 197-199 and 210-230: the loops over the listed folders, from the
\* answer of Graph to the next await or to the end of the call; the stack
\* holds the loops that are under way, the innermost last
RECURSIVE ProcessUntilAwait(_, _, _, _)
ProcessUntilAwait(call, stack, caches, box) ==
  IF stack = <<>>
  THEN [call |-> Done(call, Returned(<<>>)), caches |-> caches]
  ELSE LET top == stack[Len(stack)]
           below == SubSeq(stack, 1, Len(stack) - 1)
           folder == top.folders[top.k]
           currentPath == top.path \o <<"/">> \o folder.displayName
           next == Append(below, [top EXCEPT !.k = top.k + 1])
           entered == [id |-> CacheSet(caches.id, call.user, folder.id, currentPath),
                       path |-> CacheSet(caches.path, call.user, toLowerCase(currentPath), folder.id)]
       IN  IF top.k > Len(top.folders)
           THEN ProcessUntilAwait(call, below, caches, box)
           ELSE IF call.user \notin DOMAIN caches.id
           THEN [call |-> Done(call, SetOfUndefined), caches |-> caches]
           ELSE IF folder.childFolderCount > 0
           THEN [call |-> [call EXCEPT !.stack = next, !.parentPath = currentPath,
                                       !.listing = ListFolders(box, folder.id)],
                 caches |-> entered]
           ELSE ProcessUntilAwait(call, next, entered, box)

\* the calls that read the folders
StartedCalls == Cardinality({k \in 1..Len(running) : running[k].kind # "change"})

\* the paths that callers resolve while folders are changed
AsyncArguments == { [user |-> <<"u", "1">>, path |-> <<"/", "I", "n", "b", "o", "x", "/", "S", "u", "b">>], [user |-> <<"u", "1">>, path |-> <<"/", "i", "n", "b", "o", "x">>],
                    [user |-> <<"u", "2">>, path |-> <<"/", "I", "N", "B", "O", "X">>] }

InitAsync ==
  /\ html = <<>>
  /\ options = <<>>
  /\ text = <<>>
  /\ Idle

\* resolveFolderPath is called and runs to its first await or to its end
BeginResolve ==
  \E a \in AsyncArguments :
    LET r == ResolveUntilAwait(a.path, a.user, folderPathCache, mailboxes[a.user])
    IN  /\ StartedCalls < MaxStarted
        /\ running' = Append(running, r.call)
        /\ folderPathCache' = r.cache
        /\ pc' = "resolving"
        /\ UNCHANGED <<path, userEmail, folderId, folderIdCache, requests, resolved, listVars,
                       mailboxes, changed, textVars>>

\* a call of resolveFolderPath goes on with the listing it has waited for
ContinueResolve ==
  \E k \in 1..Len(running) :
    /\ running[k].kind = "resolve"
    /\ running[k].at = "awaiting"
    /\ LET r == ResolveAfterAwait(running[k], folderPathCache, mailboxes[running[k].user])
       IN  /\ running' = [running EXCEPT ![k] = r.call]
           /\ folderPathCache' = r.cache
    /\ pc' = "resolving"
    /\ UNCHANGED <<path, userEmail, folderId, folderIdCache, requests, resolved, listVars,
                   mailboxes, changed, textVars>>

\* lines 188-194: buildFolderPathMap is called and runs to its first await
BeginBuild ==
  /\ StartedCalls < MaxStarted
  /\ running' = Append(running, [kind |-> "build", user |-> <<"u", "1">>, at |-> "awaiting", stack |-> <<>>,
                                 parentPath |-> <<>>, listing |-> ListFolders(mailboxes[<<"u", "1">>], <<>>)])
  /\ folderIdCache' = WithUser(folderIdCache, <<"u", "1">>)
  /\ pc' = "building"
  /\ UNCHANGED <<path, userEmail, folderId, folderPathCache, requests, resolved, listVars,
                 mailboxes, changed, textVars>>

\* a call of buildFolderPathMap goes on with the listing it has waited for
ContinueBuild ==
  \E k \in 1..Len(running) :
    /\ running[k].kind = "build"
    /\ running[k].at = "awaiting"
    /\ LET r == ProcessUntilAwait(running[k],
                                  Append(running[k].stack,
                                         [folders |-> running[k].listing, k |-> 1,
                                          path |-> running[k].parentPath]),
                                  [id |-> folderIdCache, path |-> folderPathCache],
                                  mailboxes[running[k].user])
       IN  /\ running' = [running EXCEPT ![k] = r.call]
           /\ folderIdCache' = r.caches.id
           /\ folderPathCache' = r.caches.path
    /\ pc' = "building"
    /\ UNCHANGED <<path, userEmail, folderId, requests, resolved, listVars,
                   mailboxes, changed, textVars>>

\* a folder-changing operation for u1 is called with IDs and runs to the
\* await of its request; Graph changes the folders or refuses
BeginChange(op, box) ==
  /\ ~changed
  /\ changed' = TRUE
  /\ \E accepted \in BOOLEAN :
       /\ running' = Append(running, [kind |-> "change", user |-> <<"u", "1">>, at |-> "awaiting",
                                      op |-> op, accepted |-> accepted])
       /\ mailboxes' = IF accepted THEN MapSet(mailboxes, <<"u", "1">>, box) ELSE mailboxes
  /\ pc' = "changing"
  /\ UNCHANGED <<path, userEmail, folderId, folderPathCache, folderIdCache, requests, resolved,
                 listVars, textVars>>

\* lines 545-565: createFolder({displayName: 'New'}, 'u1')
CreateFolder ==
  BeginChange("createFolder",
              Append(mailboxes[<<"u", "1">>],
                     [id |-> <<"N", "1">>, displayName |-> <<"N", "e", "w">>, parentFolderId |-> <<>>]))

\* lines 585-600: updateFolder('I1', {displayName: 'Box'}, 'u1')
UpdateFolder ==
  BeginChange("updateFolder",
              [k \in 1..Len(mailboxes[<<"u", "1">>]) |->
                 IF mailboxes[<<"u", "1">>][k].id = <<"I", "1">>
                 THEN [mailboxes[<<"u", "1">>][k] EXCEPT !.displayName = <<"B", "o", "x">>]
                 ELSE mailboxes[<<"u", "1">>][k]])

\* lines 620-638: moveFolder('I2', 'msgfolderroot', 'u1')
MoveFolder ==
  BeginChange("moveFolder",
              [k \in 1..Len(mailboxes[<<"u", "1">>]) |->
                 IF mailboxes[<<"u", "1">>][k].id = <<"I", "2">>
                 THEN [mailboxes[<<"u", "1">>][k] EXCEPT !.parentFolderId = <<>>]
                 ELSE mailboxes[<<"u", "1">>][k]])

\* lines 659-677: copyFolder('I4', 'msgfolderroot', 'u1')
CopyFolder ==
  BeginChange("copyFolder",
              Append(mailboxes[<<"u", "1">>],
                     [id |-> <<"C", "4">>, displayName |-> <<"S", "U", "B">>, parentFolderId |-> <<>>]))

\* lines 566-575, 601-610, 639-648 and 678-692: the operation goes on after
\* its request: it clears both caches of the user and returns, or throws
\* what the request threw
CompleteChange ==
  \E k \in 1..Len(running) :
    /\ running[k].kind = "change"
    /\ running[k].at = "awaiting"
    /\ IF running[k].accepted
       THEN /\ folderPathCache' = MapDelete(folderPathCache, running[k].user)
            /\ folderIdCache' = MapDelete(folderIdCache, running[k].user)
            /\ running' = [running EXCEPT ![k] = Done(running[k], Returned(<<>>))]
       ELSE /\ running' = [running EXCEPT ![k] = Done(running[k], Thrown(<<"E", "r", "r", "o", "r">>))]
            /\ UNCHANGED <<folderPathCache, folderIdCache>>
    /\ pc' = "changing"
    /\ UNCHANGED <<path, userEmail, folderId, requests, resolved, listVars,
                   mailboxes, changed, textVars>>

NextAsync ==
  \/ BeginResolve \/ ContinueResolve
  \/ BeginBuild \/ ContinueBuild
  \/ CreateFolder \/ UpdateFolder \/ MoveFolder \/ CopyFolder
  \/ CompleteChange

SpecAsync == InitAsync /\ [][NextAsync]_vars

(***************************************************************************)
(* Properties of the caches when folders are changed (under SpecAsync)     *)
(***************************************************************************)
\* call k has gone on in this step and has returned
Returns(k) ==
  /\ k <= Len(running)
  /\ running[k].at = "awaiting"
  /\ running'[k].at = "done"
  /\ ~running'[k].out.threw

\* a call has been begun in this step
Begun == Len(running') = Len(running) + 1

\* the entries that a cache holds for a user
EntriesOf(cache, user) == IF user \in DOMAIN cache THEN cache[user] ELSE <<>>

\* C23: when createFolder, updateFolder, moveFolder or copyFolder returns
\* for a user, neither cache holds an entry for that user and the entries
\* of the other users are as before; and a resolveFolderPath for a path that
\* begins while the cache holds no entry for its user asks Graph for a
\* listing.
ChangeInvalidates ==
  [][/\ \A k \in 1..Len(running) :
          (running[k].kind = "change" /\ Returns(k))
          => /\ running[k].user \notin DOMAIN folderPathCache'
             /\ running[k].user \notin DOMAIN folderIdCache'
             /\ \A user \in (DOMAIN mailboxes) \ {running[k].user} :
                  /\ EntriesOf(folderPathCache', user) = EntriesOf(folderPathCache, user)
                  /\ EntriesOf(folderIdCache', user) = EntriesOf(folderIdCache, user)
     /\ (/\ Begun
         /\ running'[Len(running')].kind = "resolve"
         /\ EntriesOf(folderPathCache, running'[Len(running')].user) = <<>>)
        => /\ running'[Len(running')].at = "awaiting"
           /\ running'[Len(running')].listing
                = ListFolders(mailboxes[running'[Len(running')].user], <<>>)]_vars

\* both users had paths resolved, a folder of u1 has been renamed, and the
\* caches hold the entry of u2 and nothing for u1
ChangeInvalidatesWitness ==
  /\ Len(running) = 3
  /\ running[1] = [kind |-> "resolve", user |-> <<"u", "1">>, at |-> "done", out |-> Returned(<<"I", "2">>)]
  /\ running[2] = [kind |-> "resolve", user |-> <<"u", "2">>, at |-> "done", out |-> Returned(<<"J", "1">>)]
  /\ running[3].kind = "change" /\ running[3].at = "done" /\ ~running[3].out.threw
  /\ <<"u", "1">> \notin DOMAIN folderPathCache
  /\ <<"u", "1">> \notin DOMAIN folderIdCache
  /\ folderPathCache[<<"u", "2">>] = MapSet(<<>>, <<"/", "i", "n", "b", "o", "x">>, <<"J", "1">>)
  /\ mailboxes[<<"u", "1">>][1].displayName = <<"B", "o", "x">>

\* C28: a call of resolveFolderPath or buildFolderPathMap that waits for
\* Graph while a folder-changing operation for its user completes ends with
\* a folder ID, with its map, or with 'Folder not found': it does not fail
\* on the map of the user that the operation has deleted.
SuspendedCallsSurvive ==
  \A k \in 1..Len(running) :
    (running[k].kind # "change" /\ running[k].at = "done") => running[k].out # SetOfUndefined

\* the path of a folder in a mailbox, from the names of its ancestors
RECURSIVE PathIn(_, _)
PathIn(box, folder) ==
  LET above == {k \in 1..Len(box) : box[k].id = folder.parentFolderId}
  IN  (IF above = {} THEN <<>> ELSE PathIn(box, box[CHOOSE k \in above : TRUE]))
      \o <<"/">> \o folder.displayName

\* the path -> ID and ID -> path entries of a user agree with the folders
\* that Graph holds
AgreesWithGraph(user) ==
  /\ \A key \in DOMAIN EntriesOf(folderPathCache, user) :
       \E k \in 1..Len(mailboxes[user]) :
         /\ mailboxes[user][k].id = folderPathCache[user][key]
         /\ toLowerCase(PathIn(mailboxes[user], mailboxes[user][k])) = key
  /\ \A id \in DOMAIN EntriesOf(folderIdCache, user) :
       \E k \in 1..Len(mailboxes[user]) :
         /\ mailboxes[user][k].id = id
         /\ PathIn(mailboxes[user], mailboxes[user][k]) = folderIdCache[user][id]

\* C29: when all calls have returned, the caches hold no entry from a
\* listing made before the folder-changing operation completed: every entry
\* names a folder by the path it has now.
NoStaleEntry ==
  (\A k \in 1..Len(running) : running[k].at = "done")
  => \A user \in DOMAIN mailboxes : AgreesWithGraph(user)

====
